---- MODULE Spec2Model ----
(***************************************************************************)
(* Fixel-fixel connectivity matrix of MRtrix3 (Fixel::Matrix): dynamic     *)
(* construction (InitFixel::add, generate), thresholding / normalisation   *)
(* (normalise) and the text serialisation (save, parse_line, load).        *)
(*                                                                         *)
(* C++ vectors are sequences; the element the code addresses as v[i]       *)
(* (0-based) is At(v, i).  Values of connectivity_value_type are exact     *)
(* rationals [num, den] in lowest terms; den = 0 stands for +infinity      *)
(* (the IEEE result of 1 / 0).                                             *)
(***************************************************************************)
EXTENDS Integers, Sequences, FiniteSets, Bags, TLC

(***************************************************************************)
(* Bounds of the model                                                     *)
(***************************************************************************)
\* number of fixels of the template (size of the connectivity matrix)
NumFixels == 3
\* number of streamlines the track file delivers at most
MaxTracks == 3

\* the multi-threaded run of generate(): fixels, streamlines of the track
\* file and threads of the worker pool
GenFixels == 2
GenTracks == 2
NumWorkers == 2

Fixels == 0 .. (NumFixels - 1)

(***************************************************************************)
(* Generic helpers for 0-based vectors                                     *)
(***************************************************************************)
At(v, i) == v[i + 1]
Put(v, i, e) == [v EXCEPT ![i + 1] = e]

Min(S) == CHOOSE x \in S : \A y \in S : x <= y

\* std::sort of a duplicate-free set of indices: the ascending list
RECURSIVE SortedSeq(_)
SortedSeq(S) == IF S = {} THEN << >>
                ELSE LET m == Min(S) IN << m >> \o SortedSeq(S \ {m})

ListSet(l) == { l[k] : k \in 1 .. Len(l) }

\* the visited-fixel lists TrackProcessor can hand to the sink: ascending,
\* duplicate-free (one fixel per voxel, sorted before return)
FixelListsOf(num_fixels) == { SortedSeq(S) : S \in SUBSET (0 .. (num_fixels - 1)) }
FixelLists == FixelListsOf(NumFixels)

(***************************************************************************)
(* connectivity_value_type: rationals                                      *)
(***************************************************************************)
RECURSIVE GCD(_, _)
GCD(a, b) == IF b = 0 THEN a ELSE GCD(b, a % b)

\* n / d for n, d >= 0; 0 / 0 is NaN, n / 0 is +infinity
Rat(n, d) == IF d = 0 THEN [num |-> IF n = 0 THEN 0 ELSE 1, den |-> 0]
             ELSE LET g == GCD(n, d) IN [num |-> n \div g, den |-> d \div g]

RatZero == Rat(0, 1)
RatOne  == Rat(1, 1)
RatInf  == Rat(1, 0)
RatNaN  == Rat(0, 0)

RatIsFinite(a) == a.den # 0

RatAdd(a, b) == IF a = RatNaN \/ b = RatNaN THEN RatNaN
                ELSE IF a.den = 0 \/ b.den = 0 THEN RatInf
                ELSE Rat(a.num * b.den + b.num * a.den, a.den * b.den)
RatDiv(a, b) == IF a = RatNaN \/ b = RatNaN THEN RatNaN
                ELSE IF a.den = 0 THEN (IF b.den = 0 THEN RatNaN ELSE RatInf)
                ELSE IF b.den = 0 THEN RatZero
                ELSE Rat(a.num * b.den, a.den * b.num)
\* a >= b (false when either is NaN)
RatGE(a, b) == IF a = RatNaN \/ b = RatNaN THEN FALSE
               ELSE IF a.den = 0 THEN TRUE
               ELSE IF b.den = 0 THEN FALSE
               ELSE a.num * b.den >= b.num * a.den

(***************************************************************************)
(* InitElement / InitFixel                                                 *)
(***************************************************************************)
\* std::numeric_limits<index_type>::max(); the model's integers are 32-bit
\* signed, so the placeholder id is the largest value they hold.  The code
\* never compares it, it only has to differ from every fixel index.
index_type_max == 2147483647

\* InitElement(): the placeholder pushed by the second pass of add()
InitElementDefault == [index |-> index_type_max, value |-> 0]
\* InitElement (fixel_index): track_count 1
InitElement(fixel_index) == [index |-> fixel_index, value |-> 1]
\* InitElement::operator++
InitElementIncr(e) == [e EXCEPT !.value = @ + 1]

\* InitFixel(): empty vector, track_count 0
InitFixelEmpty == [elems |-> << >>, track_count |-> 0]

\* first branch of add(): the fixel has no entry yet
AddToEmpty(indices) ==
  [elems |-> [k \in 1 .. Len(indices) |-> InitElement(indices[k])],
   track_count |-> 1]

\* AddPass1 without the ++ of the entries found in both lists
RECURSIVE AddPass1NoIncrement(_, _, _, _, _)
AddPass1NoIncrement(elems, indices, self_index, in_index, intersection) ==
  IF self_index < Len(elems) /\ in_index < Len(indices)
  THEN IF At(elems, self_index).index = At(indices, in_index)
       THEN AddPass1NoIncrement(elems, indices, self_index + 1, in_index + 1,
                                intersection + 1)
       ELSE IF At(elems, self_index).index > At(indices, in_index)
            THEN AddPass1NoIncrement(elems, indices, self_index, in_index + 1, intersection)
            ELSE AddPass1NoIncrement(elems, indices, self_index + 1, in_index, intersection)
  ELSE [elems |-> elems, intersection |-> intersection]

\* first pass: increment the entries that already exist, count them
RECURSIVE AddPass1(_, _, _, _, _)
AddPass1(elems, indices, self_index, in_index, intersection) ==
  IF self_index < Len(elems) /\ in_index < Len(indices)
  THEN IF At(elems, self_index).index = At(indices, in_index)
       THEN AddPass1(Put(elems, self_index, InitElementIncr(At(elems, self_index))),
                     indices, self_index + 1, in_index + 1, intersection + 1)
       ELSE IF At(elems, self_index).index > At(indices, in_index)
            THEN AddPass1(elems, indices, self_index, in_index + 1, intersection)
            ELSE AddPass1(elems, indices, self_index + 1, in_index, intersection)
  ELSE [elems |-> elems, intersection |-> intersection]

\* push_back (InitElement()) until the vector has the required size
RECURSIVE AddExtend(_, _)
AddExtend(elems, new_size) ==
  IF Len(elems) < new_size
  THEN AddExtend(Append(elems, InitElementDefault), new_size)
  ELSE elems

\* AddFillFront with the trailing loop left out
AddFillFrontSkip(elems, indices, in_index, out_index) == elems

\* trailing loop of the second pass, run when self_index < 0
RECURSIVE AddFillFront(_, _, _, _)
AddFillFront(elems, indices, in_index, out_index) ==
  IF in_index >= 0 /\ out_index >= 0
  THEN AddFillFront(Put(elems, out_index, InitElement(At(indices, in_index))),
                    indices, in_index - 1, out_index - 1)
  ELSE elems

\* AddPass2 that leaves the old entries where they are and writes the new
\* ids, in list order, into the slots pushed at the back
RECURSIVE AppendNew(_, _, _, _, _)
AppendNew(elems, indices, old_size, k, slot) ==
  IF k > Len(indices) THEN elems
  ELSE IF \E j \in 1 .. old_size : elems[j].index = indices[k]
       THEN AppendNew(elems, indices, old_size, k + 1, slot)
       ELSE AppendNew([elems EXCEPT ![slot] = InitElement(indices[k])],
                      indices, old_size, k + 1, slot + 1)

AddPass2AppendNew(elems, indices, self_index, in_index, out_index) ==
  AppendNew(elems, indices, self_index + 1, 1, self_index + 2)

\* second pass: fill the vector from back to front
RECURSIVE AddPass2(_, _, _, _, _)
AddPass2(elems, indices, self_index, in_index, out_index) ==
  IF out_index > self_index /\ self_index >= 0 /\ in_index >= 0
  THEN IF At(elems, self_index).index = At(indices, in_index)
       THEN AddPass2(Put(elems, out_index, At(elems, self_index)),
                     indices, self_index - 1, in_index - 1, out_index - 1)
       ELSE IF At(elems, self_index).index > At(indices, in_index)
            THEN AddPass2(Put(elems, out_index, At(elems, self_index)),
                          indices, self_index - 1, in_index, out_index - 1)
            ELSE AddPass2(Put(elems, out_index, InitElement(At(indices, in_index))),
                          indices, self_index, in_index - 1, out_index - 1)
  ELSE IF self_index < 0
       THEN AddFillFront(elems, indices, in_index, out_index)
       ELSE elems

\* add() without the final ++track_count
AddNoCount(fixel, indices) ==
  IF Len(fixel.elems) = 0
  THEN AddToEmpty(indices)
  ELSE LET old_size == Len(fixel.elems)
           p1       == AddPass1(fixel.elems, indices, 0, 0, 0)
           extended == AddExtend(p1.elems, old_size + Len(indices) - p1.intersection)
       IN [elems |-> AddPass2(extended, indices, old_size - 1,
                              Len(indices) - 1, Len(extended) - 1),
           track_count |-> fixel.track_count]

\* InitFixel::add (indices)
Add(fixel, indices) ==
  IF Len(fixel.elems) = 0
  THEN AddToEmpty(indices)
  ELSE LET old_size == Len(fixel.elems)
           p1       == AddPass1(fixel.elems, indices, 0, 0, 0)
           extended == AddExtend(p1.elems, old_size + Len(indices) - p1.intersection)
       IN [elems |-> AddPass2(extended, indices, old_size - 1,
                              Len(indices) - 1, Len(extended) - 1),
           track_count |-> fixel.track_count + 1]

\* the sink of generate(): for (auto f : fixels) connectivity_matrix[f].add (fixels)
RECURSIVE SinkLoop(_, _, _)
SinkLoop(matrix, fixels, k) ==
  IF k > Len(fixels) THEN matrix
  ELSE LET f == fixels[k] IN
       SinkLoop(Put(matrix, f, Add(At(matrix, f), fixels)), fixels, k + 1)

\* the sink loop starting at the second fixel of the list
GenerateSinkSkipFirst(matrix, fixels) == SinkLoop(matrix, fixels, 2)

GenerateSink(matrix, fixels) == SinkLoop(matrix, fixels, 1)

\* init_matrix_type connectivity_matrix (number of fixels)
InitMatrixOf(num_fixels) == [f \in 1 .. num_fixels |-> InitFixelEmpty]
InitMatrix == InitMatrixOf(NumFixels)

(***************************************************************************)
(* NormElement / NormFixel / normalise                                     *)
(***************************************************************************)
NormElement(fixel_index, connectivity_value) ==
  [index |-> fixel_index, value |-> connectivity_value]

\* NormFixel(): empty vector, norm_multiplier 1
NormFixelEmpty == [elems |-> << >>, norm_multiplier |-> RatOne]

RECURSIVE SumValues(_, _, _)
SumValues(elems, k, acc) ==
  IF k > Len(elems) THEN acc
  ELSE SumValues(elems, k + 1, RatAdd(acc, elems[k].value))

\* NormFixel::normalise(): norm_multiplier = 1 / (sum of the values)
NormFixelNormalise(fixel) ==
  [fixel EXCEPT !.norm_multiplier = RatDiv(RatOne, SumValues(fixel.elems, 1, RatZero))]

\* SinkPush with the comparison connectivity > threshold
RECURSIVE SinkPushStrict(_, _, _, _)
SinkPushStrict(init_fixel, threshold, k, out) ==
  IF k > Len(init_fixel.elems) THEN out
  ELSE LET it == init_fixel.elems[k]
           connectivity == RatDiv(Rat(it.value, 1), Rat(init_fixel.track_count, 1))
       IN SinkPushStrict(init_fixel, threshold, k + 1,
                   IF RatGE(connectivity, threshold) /\ connectivity # threshold
                   THEN Append(out, NormElement(it.index, connectivity))
                   ELSE out)

\* loop of the Sink of normalise() over the entries of initial_matrix[index]
RECURSIVE SinkPush(_, _, _, _)
SinkPush(init_fixel, threshold, k, out) ==
  IF k > Len(init_fixel.elems) THEN out
  ELSE LET it == init_fixel.elems[k]
           connectivity == RatDiv(Rat(it.value, 1), Rat(init_fixel.track_count, 1))
       IN SinkPush(init_fixel, threshold, k + 1,
                   IF RatGE(connectivity, threshold)
                   THEN Append(out, NormElement(it.index, connectivity))
                   ELSE out)

\* NormaliseSink that keeps every raw edge, whatever the threshold
NormaliseSinkKeepAll(init_fixel, threshold) ==
  NormFixelNormalise([elems |-> SinkPush(init_fixel, RatZero, 1, << >>),
                      norm_multiplier |-> RatOne])

\* what the Sink of normalise() stores in data[index]
NormaliseSink(init_fixel, threshold) ==
  NormFixelNormalise([elems |-> SinkPush(init_fixel, threshold, 1, << >>),
                      norm_multiplier |-> RatOne])

\* normalise (initial_matrix, connectivity_threshold): the returned matrix
NormaliseMatrix(initial_matrix, threshold) ==
  [f \in 1 .. Len(initial_matrix) |-> NormaliseSink(initial_matrix[f], threshold)]

(***************************************************************************)
(* Text: a string is a sequence of characters                              *)
(***************************************************************************)
DigitChars == << "0", "1", "2", "3", "4", "5", "6", "7", "8", "9" >>
DigitChar(d) == DigitChars[d + 1]
IsDigit(c) == \E d \in 0 .. 9 : DigitChars[d + 1] = c
DigitVal(c) == CHOOSE d \in 0 .. 9 : DigitChars[d + 1] = c

RECURSIVE Pow10(_)
Pow10(k) == IF k = 0 THEN 1 ELSE 10 * Pow10(k - 1)

\* operator<< of an unsigned integer: its decimal digits
RECURSIVE FormatIndex(_)
FormatIndex(n) == IF n < 10 THEN << DigitChar(n) >>
                  ELSE FormatIndex(n \div 10) \o << DigitChar(n % 10) >>

\* n as exactly w digits, leading zeros included
RECURSIVE FixedDigits(_, _)
FixedDigits(n, w) == IF w = 0 THEN << >>
                     ELSE FixedDigits(n \div 10, w - 1) \o << DigitChar(n % 10) >>

RECURSIVE StripZeros(_)
StripZeros(t) == IF Len(t) > 0 /\ t[Len(t)] = "0"
                 THEN StripZeros(SubSeq(t, 1, Len(t) - 1)) ELSE t

RECURSIVE Zeros(_)
Zeros(k) == IF k <= 0 THEN << >> ELSE << "0" >> \o Zeros(k - 1)

\* number of significant digits operator<< prints for a float (default
\* stream precision)
StreamPrecision == 6

\* decimal exponent X of v: 10^X <= v < 10^(X+1), for 10^-4 <= v < 10^6 (the
\* range in which the default float format uses fixed notation)
Exp10(v) == CHOOSE X \in -4 .. 5 :
              /\ IF X >= 0 THEN v.num >= Pow10(X) * v.den
                           ELSE v.num * Pow10(-X) >= v.den
              /\ IF X + 1 >= 0 THEN v.num < Pow10(X + 1) * v.den
                               ELSE v.num * Pow10(-(X + 1)) < v.den

\* n / d rounded to the nearest integer, ties to even
RoundDiv(n, d) == LET q == n \div d
                      r == n % d
                  IN IF 2 * r > d \/ (2 * r = d /\ q % 2 = 1) THEN q + 1 ELSE q

\* operator<< of a connectivity_value_type: StreamPrecision significant
\* digits, trailing zeros and a trailing point removed
FormatValue(v) ==
  IF v = RatNaN THEN << "n", "a", "n" >>
  ELSE IF v.den = 0 THEN << "i", "n", "f" >>
  ELSE IF v.num = 0 THEN << "0" >>
  ELSE LET X0 == Exp10(v)
           S0 == RoundDiv(v.num * Pow10(StreamPrecision - 1 - X0), v.den)
           up == S0 = Pow10(StreamPrecision)
           X  == IF up THEN X0 + 1 ELSE X0
           S  == IF up THEN Pow10(StreamPrecision - 1) ELSE S0
           ds == FixedDigits(S, StreamPrecision)
       IN IF X >= 0
          THEN LET ip == SubSeq(ds, 1, X + 1)
                   fp == StripZeros(SubSeq(ds, X + 2, StreamPrecision))
               IN IF Len(fp) = 0 THEN ip ELSE ip \o << "." >> \o fp
          ELSE << "0", "." >> \o Zeros(-X - 1) \o StripZeros(ds)

(***************************************************************************)
(* save                                                                    *)
(***************************************************************************)
\* inner loop of save(): what one fixel appends to the stringstream s
RECURSIVE SaveEntries(_, _, _)
SaveEntries(f, i, s) ==
  IF i = Len(f.elems) THEN s
  ELSE SaveEntries(f, i + 1,
         s \o (IF i # 0 THEN << "," >> ELSE << >>)
           \o FormatIndex(At(f.elems, i).index) \o << ":" >>
           \o FormatValue(At(f.elems, i).value))

\* s.clear() at the top of the loop body: std::basic_ios::clear() resets the
\* error state flags of the stream and leaves its contents alone
StreamClear(s) == s

\* outer loop of save(): the characters written to the file
RECURSIVE SaveLoop(_, _, _, _)
SaveLoop(matrix, k, s, out) ==
  IF k > Len(matrix) THEN out
  ELSE LET s2 == SaveEntries(matrix[k], 0, StreamClear(s))
       IN SaveLoop(matrix, k + 1, s2, out \o s2 \o << "\n" >>)

Save(matrix) == SaveLoop(matrix, 1, << >>, << >>)

(***************************************************************************)
(* parse_line / load                                                       *)
(***************************************************************************)
\* MR::split (string, delimiter): the fields between the delimiters; an empty
\* string has no field
RECURSIVE SplitFrom(_, _, _, _)
SplitFrom(str, delim, k, cur) ==
  IF k > Len(str) THEN << cur >>
  ELSE IF str[k] = delim
       THEN IF k = Len(str) THEN << cur >>
            ELSE << cur >> \o SplitFrom(str, delim, k + 1, << >>)
       ELSE SplitFrom(str, delim, k + 1, Append(cur, str[k]))

Split(str, delim) == IF Len(str) = 0 THEN << >> ELSE SplitFrom(str, delim, 1, << >>)

RECURSIVE DigitsValue(_, _, _)
DigitsValue(t, k, acc) ==
  IF k > Len(t) THEN acc ELSE DigitsValue(t, k + 1, 10 * acc + DigitVal(t[k]))

AllDigits(t) == \A k \in 1 .. Len(t) : IsDigit(t[k])

\* to<index_type> (string): ok is FALSE where the conversion throws
ToIndex(t) ==
  IF Len(t) > 0 /\ AllDigits(t)
  THEN [ok |-> TRUE, value |-> DigitsValue(t, 1, 0)]
  ELSE [ok |-> FALSE, value |-> 0]

\* to<connectivity_value_type> (string): digits with at most one decimal point
ToValue(t) ==
  LET parts == SplitFrom(t, ".", 1, << >>)
      ip    == parts[1]
      fp    == IF Len(parts) > 1 THEN parts[2] ELSE << >>
  IN IF /\ Len(t) > 0
        /\ Len(parts) <= 2
        /\ Cardinality({ k \in 1 .. Len(t) : t[k] = "." }) <= 1
        /\ AllDigits(ip) /\ AllDigits(fp)
        /\ Len(ip) + Len(fp) > 0
     THEN [ok |-> TRUE,
           value |-> Rat(DigitsValue(ip, 1, 0) * Pow10(Len(fp)) + DigitsValue(fp, 1, 0),
                         Pow10(Len(fp)))]
     ELSE [ok |-> FALSE, value |-> RatZero]

\* loop of parse_line<NormFixel> over the entries of the line; ok is FALSE
\* where an exception leaves the function
RECURSIVE ParseEntries(_, _, _, _)
ParseEntries(line, entries, k, data) ==
  IF k > Len(entries) THEN [ok |-> TRUE, fixel |-> data]
  ELSE LET pair == Split(entries[k], ":") IN
       IF Len(pair) # 2
       THEN [ok |-> FALSE, what |-> "unpaired", line |-> line, entry |-> entries[k]]
       ELSE LET i == ToIndex(pair[1])
                v == ToValue(pair[2])
            IN IF i.ok /\ v.ok
               THEN ParseEntries(line, entries, k + 1,
                      [data EXCEPT !.elems = Append(@, NormElement(i.value, v.value))])
               ELSE [ok |-> FALSE, what |-> "conversion", line |-> line,
                     entry |-> entries[k]]

ParseLine(line) == ParseEntries(line, Split(line, ","), 1, NormFixelEmpty)

\* std::getline: the characters up to the next newline, and the rest
RECURSIVE GetLine(_, _, _)
GetLine(text, k, cur) ==
  IF k > Len(text) THEN [line |-> cur, rest |-> << >>]
  ELSE IF text[k] = "\n" THEN [line |-> cur, rest |-> SubSeq(text, k + 1, Len(text))]
  ELSE GetLine(text, k + 1, Append(cur, text[k]))

\* load<norm_matrix_type> (filepath): the matrix, or the exception thrown
RECURSIVE LoadLoop(_, _)
LoadLoop(text, data) ==
  IF Len(text) = 0 THEN [ok |-> TRUE, matrix |-> data]
  ELSE LET g == GetLine(text, 1, << >>)
           p == ParseLine(g.line)
       IN IF p.ok THEN LoadLoop(g.rest, Append(data, p.fixel))
          ELSE p

Load(text) == LoadLoop(text, << >>)

(***************************************************************************)
(* State                                                                   *)
(***************************************************************************)
VARIABLES
  pc,                     \* stage of the fixelconnectivity run
  connectivity_matrix,    \* init_matrix_type under construction
  streamlines,            \* bag of the visited-fixel lists the sink has received
  connectivity_threshold, \* threshold handed to normalise()
  data,                   \* norm_matrix_type returned by normalise()
  file,                   \* characters of the matrix file written by save()
  loaded,                 \* result of load() on that file
  tracks,                 \* lists of the streamlines read so far, in file order
  worker,                 \* per pipe thread: the list it is about to write
  queue,                  \* lists in flight between the pipe and the sink
  sink,                   \* per sink thread: the list it is working on
  arrived,                \* lists in the order the sink functor received them
  index_remapper,         \* IndexRemapper of the command that reads the matrix file
  options,                \* fixelcfestats: values of the command-line options
  norm_connectivity_matrix, \* fixelcfestats: the matrix load() returned
  num_unconnected_fixels, \* fixelcfestats: counter of the pre-conditioning loop
  warned,                 \* fixelcfestats: WARN about unconnected fixels was issued
  measurements,           \* fixelcfestats: input data, one row per subject
  extra_columns,          \* fixelcfestats: number of element-wise design columns
  nans_in_data,           \* fixelcfestats: !data.allFinite()
  glm_test,               \* fixelcfestats: the GLM test object, null before reset()
  calls,                  \* fixelcfestats: the calls that were handed a test object
  error,                  \* what() of the exception that ended the command
  kernel,                 \* Smooth: constants of the Gaussian kernel and the threshold
  fixel_positions,        \* Smooth: position of every fixel of the index image
  smoothing_matrix,       \* Smooth: the smoothing matrix (member matrix)
  processed,              \* Smooth: indices of the lines the functor has handled
  out_of_range,           \* Smooth: an array was indexed outside of its bounds
  input,                  \* Smooth: fixel data file given to operator()
  output,                 \* Smooth, TestVariable: what operator() writes
  contrast,               \* GLM: the contrast matrix c of a hypothesis, by columns
  design,                 \* GLM: the design matrix, by columns
  partition,              \* GLM: the Partition returned by Contrast::operator()
  y,                      \* GLM: measurements, one row per element
  importers,              \* GLM: element-wise design columns, [element][subject]
  shuffling_matrix,       \* GLM: the shuffling matrix, by rows
  element,                \* TestVariable::operator(): index of the next element
  element_mask,           \* TestVariable::operator(): mask of the last element
  Mfull_masked,           \* TestVariable::operator(): its design matrix, by rows
  y_masked,               \* TestVariable::operator(): its measurements
  perm_matrix_masked,     \* TestVariable::operator(): its shuffling matrix, by rows
  F,                      \* TestVariable::operator(): its F ratio, per hypothesis
  betahat,                \* TestVariable::operator(): its betahat, per hypothesis
  source_counter,         \* Source of a run_queue: the next index it hands out
  fixel_mask_image,       \* generate(): the fixel mask, one flag per fixel
  tck,                    \* generate(): the streamline mapped last, as voxel visits
  seed,                   \* PermTest: seed of the shuffles
  null_distribution       \* PermTest: the null distribution and the counts

seqVars == << streamlines, connectivity_threshold, data, file, loaded >>
genVars == << tracks, worker, queue, sink, arrived >>
statsVars == << options, norm_connectivity_matrix, num_unconnected_fixels, warned,
               measurements, extra_columns, nans_in_data, glm_test, calls, error >>
smoothVars == << kernel, fixel_positions, smoothing_matrix, processed, out_of_range,
                input, output >>
glmVars == << contrast, design, partition, y, importers, shuffling_matrix, element,
             element_mask, Mfull_masked, y_masked, perm_matrix_masked, F, betahat >>
parVars == << source_counter, fixel_mask_image, tck, seed, null_distribution >>
cmdVars == << index_remapper, statsVars, smoothVars, glmVars, parVars >>
vars == << pc, connectivity_matrix, seqVars, genVars, cmdVars >>

Idle == [fixels |-> << >>, k |-> 0, adding |-> FALSE]
GenIdle ==
  /\ tracks = << >>
  /\ worker = << >>
  /\ queue = << >>
  /\ sink = << >>
  /\ arrived = << >>

\* fixelconnectivity reads no matrix file: the variables of the commands that do
\* keep the values of default-constructed objects
NoTest == [kind |-> "null"]

StatsIdle ==
  /\ options = [cfe_c |-> 0, cfe_norm |-> FALSE, nonstationarity |-> FALSE, notest |-> FALSE]
  /\ norm_connectivity_matrix = << >>
  /\ num_unconnected_fixels = 0
  /\ warned = FALSE
  /\ measurements = << >>
  /\ extra_columns = 0
  /\ nans_in_data = FALSE
  /\ glm_test = NoTest
  /\ calls = << >>
  /\ error = "none"

SmoothIdle ==
  /\ kernel = [gaussian_const1 |-> RatZero, attenuation |-> RatZero, threshold |-> RatZero]
  /\ fixel_positions = << >>
  /\ smoothing_matrix = << >>
  /\ processed = { }
  /\ out_of_range = FALSE
  /\ input = << >>
  /\ output = << >>

VariableIdle ==
  /\ y = << >>
  /\ importers = << >>
  /\ shuffling_matrix = << >>
  /\ element = 0
  /\ element_mask = << >>
  /\ Mfull_masked = << >>
  /\ y_masked = << >>
  /\ perm_matrix_masked = << >>
  /\ F = << >>
  /\ betahat = << >>

ParIdle ==
  /\ source_counter = 0
  /\ fixel_mask_image = << >>
  /\ tck = << >>
  /\ seed = 0
  /\ null_distribution = << >>

GlmIdle ==
  /\ contrast = << >>
  /\ design = << >>
  /\ partition = [X |-> << >>, Z |-> << >>]
  /\ VariableIdle

CmdIdle ==
  /\ index_remapper = [default |-> TRUE, external2internal |-> << >>]
  /\ StatsIdle
  /\ SmoothIdle
  /\ GlmIdle
  /\ ParIdle

\* connectivity thresholds of the model, all within [0, 1]; 1/100 is the
\* default of fixelconnectivity
Thresholds == { Rat(1, 100), Rat(1, 2), Rat(1, 1) }

Init ==
  /\ pc = "generate"
  /\ connectivity_matrix = InitMatrix
  /\ streamlines = EmptyBag
  /\ connectivity_threshold = RatZero
  /\ data = << >>
  /\ file = << >>
  /\ loaded = [ok |-> TRUE, matrix |-> << >>]
  /\ GenIdle
  /\ CmdIdle

\* generate(): the sink receives the visited-fixel list of one streamline
Insert(fixels) ==
  /\ pc = "generate"
  /\ BagCardinality(streamlines) < MaxTracks
  /\ connectivity_matrix' = GenerateSink(connectivity_matrix, fixels)
  /\ streamlines' = streamlines (+) SetToBag({fixels})
  /\ UNCHANGED << pc, connectivity_threshold, data, file, loaded, genVars, cmdVars >>

\* normalise (connectivity_matrix, threshold); the initial matrix is wiped
Normalise(threshold) ==
  /\ pc = "generate"
  /\ connectivity_threshold' = threshold
  /\ data' = NormaliseMatrix(connectivity_matrix, threshold)
  /\ connectivity_matrix' = << >>
  /\ pc' = "normalised"
  /\ UNCHANGED << streamlines, file, loaded, genVars, cmdVars >>

\* save (data, filepath)
DoSave ==
  /\ pc = "normalised"
  /\ file' = Save(data)
  /\ pc' = "saved"
  /\ UNCHANGED << connectivity_matrix, streamlines, connectivity_threshold, data, loaded,
                  genVars, cmdVars >>

\* load<norm_matrix_type> (filepath)
DoLoad ==
  /\ pc = "saved"
  /\ loaded' = Load(file)
  /\ pc' = "loaded"
  /\ UNCHANGED << connectivity_matrix, streamlines, connectivity_threshold, data, file,
                  genVars, cmdVars >>

Next ==
  \/ \E fixels \in FixelLists : Insert(fixels)
  \/ \E threshold \in Thresholds : Normalise(threshold)
  \/ DoSave
  \/ DoLoad

Spec == Init /\ [][Next]_vars

(***************************************************************************)
(* generate() on its threads: Thread::run_queue (loader, track_processor,  *)
(* sink).  The pipe threads take the next streamline from the loader, map  *)
(* it to its visited-fixel list and write the list to the queue; the sink  *)
(* functor is called with one list at a time and adds it to every fixel it *)
(* names.                                                                  *)
(***************************************************************************)
\* SinkThreads had the sink functor been wrapped in Thread::multi
SinkThreadsMulti == NumWorkers
\* threads that run the sink functor: it is handed to run_queue as it is,
\* not wrapped in Thread::multi
SinkThreads == 1

PipeIds == 1 .. NumWorkers
SinkIds == 1 .. SinkThreads

NoItem == << -1 >>

InitGenerate ==
  /\ pc = "running"
  /\ connectivity_matrix = InitMatrixOf(GenFixels)
  /\ streamlines = EmptyBag
  /\ connectivity_threshold = RatZero
  /\ data = << >>
  /\ file = << >>
  /\ loaded = [ok |-> TRUE, matrix |-> << >>]
  /\ tracks = << >>
  /\ worker = [w \in PipeIds |-> NoItem]
  /\ queue = << >>
  /\ sink = [t \in SinkIds |-> Idle]
  /\ arrived = << >>
  /\ CmdIdle

\* pipe thread w reads the next streamline; TrackProcessor maps it to fixels
PipeTake(w, fixels) ==
  /\ pc = "running"
  /\ worker[w] = NoItem
  /\ Len(tracks) < GenTracks
  /\ tracks' = Append(tracks, fixels)
  /\ worker' = [worker EXCEPT ![w] = fixels]
  /\ UNCHANGED << pc, connectivity_matrix, seqVars, cmdVars, queue, sink, arrived >>

\* pipe thread w writes its list to the queue
PipePush(w) ==
  /\ pc = "running"
  /\ worker[w] # NoItem
  /\ queue' = Append(queue, worker[w])
  /\ worker' = [worker EXCEPT ![w] = NoItem]
  /\ UNCHANGED << pc, connectivity_matrix, seqVars, cmdVars, tracks, sink, arrived >>

\* sink thread t reads the next list and enters the sink functor
SinkTake(t) ==
  /\ pc = "running"
  /\ sink[t] = Idle
  /\ Len(queue) > 0
  /\ sink' = [sink EXCEPT ![t] = [fixels |-> Head(queue), k |-> 1, adding |-> FALSE]]
  /\ queue' = Tail(queue)
  /\ arrived' = Append(arrived, Head(queue))
  /\ UNCHANGED << pc, connectivity_matrix, seqVars, cmdVars, tracks, worker >>

\* sink thread t enters connectivity_matrix[f].add (fixels) for its next f
SinkAddBegin(t) ==
  /\ pc = "running"
  /\ sink[t] # Idle
  /\ ~ sink[t].adding
  /\ sink[t].k <= Len(sink[t].fixels)
  /\ sink' = [sink EXCEPT ![t].adding = TRUE]
  /\ UNCHANGED << pc, connectivity_matrix, seqVars, cmdVars, tracks, worker, queue, arrived >>

\* ... and leaves it
SinkAddEnd(t) ==
  /\ pc = "running"
  /\ sink[t].adding
  /\ LET f == sink[t].fixels[sink[t].k] IN
       connectivity_matrix' =
         Put(connectivity_matrix, f, Add(At(connectivity_matrix, f), sink[t].fixels))
  /\ sink' = [sink EXCEPT ![t].adding = FALSE, ![t].k = @ + 1]
  /\ UNCHANGED << pc, seqVars, cmdVars, tracks, worker, queue, arrived >>

\* the sink functor returns true
SinkReturn(t) ==
  /\ pc = "running"
  /\ sink[t] # Idle
  /\ ~ sink[t].adding
  /\ sink[t].k > Len(sink[t].fixels)
  /\ sink' = [sink EXCEPT ![t] = Idle]
  /\ UNCHANGED << pc, connectivity_matrix, seqVars, cmdVars, tracks, worker, queue, arrived >>

\* the track file is exhausted and every thread has finished: generate()
\* returns connectivity_matrix
GenerateReturn ==
  /\ pc = "running"
  /\ \A w \in PipeIds : worker[w] = NoItem
  /\ queue = << >>
  /\ \A t \in SinkIds : sink[t] = Idle
  /\ pc' = "returned"
  /\ UNCHANGED << connectivity_matrix, seqVars, genVars, cmdVars >>

NextGenerate ==
  \/ \E w \in PipeIds : \E fixels \in FixelListsOf(GenFixels) : PipeTake(w, fixels)
  \/ \E w \in PipeIds : PipePush(w)
  \/ \E t \in SinkIds : SinkTake(t)
  \/ \E t \in SinkIds : SinkAddBegin(t)
  \/ \E t \in SinkIds : SinkAddEnd(t)
  \/ \E t \in SinkIds : SinkReturn(t)
  \/ GenerateReturn

SpecGenerate == InitGenerate /\ [][NextGenerate]_vars

(***************************************************************************)
(* Helpers of the properties                                               *)
(***************************************************************************)
Ids(elems) == { elems[k].index : k \in 1 .. Len(elems) }

RECURSIVE CountFrom(_, _, _)
CountFrom(elems, i, k) ==
  IF k > Len(elems) THEN 0
  ELSE (IF elems[k].index = i THEN elems[k].value ELSE 0) + CountFrom(elems, i, k + 1)

\* total count the adjacency records for neighbour i (0 when i is absent)
CountOf(elems, i) == CountFrom(elems, i, 1)

StrictlyAscending(elems) ==
  \A k \in 1 .. (Len(elems) - 1) : elems[k].index < elems[k + 1].index

\* some streamline received so far visits every fixel of S
VisitedTogether(S) ==
  \E l \in BagToSet(streamlines) : S \subseteq ListSet(l)

Pairs(fixel) == [k \in 1 .. Len(fixel.elems) |->
                   << fixel.elems[k].index, fixel.elems[k].value >>]

\* the streamlines of Scenario A: {0,1}, {1,2}, {0,1,2}
ScenarioA == SetToBag({ << 0, 1 >>, << 1, 2 >>, << 0, 1, 2 >> })

RawFixel(pairs, count) ==
  [elems |-> [k \in 1 .. Len(pairs) |-> [index |-> pairs[k][1], value |-> pairs[k][2]]],
   track_count |-> count]

(***************************************************************************)
(* C1: one add(list) on fixel f, list ascending, duplicate-free and         *)
(* containing f: every id of the list has its count raised by exactly 1    *)
(* (new ids enter with count 1), every other id keeps its count, no other  *)
(* id appears, and track_count grows by exactly 1.                         *)
(***************************************************************************)
AddPost(old, new, indices) ==
  /\ new.track_count = old.track_count + 1
  /\ Ids(new.elems) = Ids(old.elems) \cup ListSet(indices)
  /\ Len(new.elems) = Cardinality(Ids(new.elems))
  /\ \A i \in Ids(new.elems) :
       CountOf(new.elems, i) =
         CountOf(old.elems, i) + (IF i \in ListSet(indices) THEN 1 ELSE 0)

C1_AddContract ==
  [][ \A fixels \in FixelLists :
        (pc = "generate" /\ streamlines' = streamlines (+) SetToBag({fixels}))
        => \A f \in ListSet(fixels) :
             AddPost(At(connectivity_matrix, f), At(connectivity_matrix', f), fixels)
    ]_vars

\* a fixel that was added to twice, the second list bringing a new id in
\* front of an id it already had
C1_Witness ==
  /\ pc = "generate"
  /\ \E f \in Fixels :
       LET fx == At(connectivity_matrix, f) IN
       /\ fx.track_count = 2
       /\ Len(fx.elems) >= 2
       /\ fx.elems[1].value = 1
       /\ fx.elems[Len(fx.elems)].value = 2

(***************************************************************************)
(* C2: every raw adjacency is strictly ascending by neighbour id and holds *)
(* no placeholder entry (id = max index, count 0).                         *)
(***************************************************************************)
C2_SortedNoPlaceholder ==
  pc = "generate" =>
    \A f \in Fixels :
      LET elems == At(connectivity_matrix, f).elems IN
      /\ \A k \in 1 .. Len(elems) :
           elems[k].index # index_type_max /\ elems[k].value >= 1
      /\ StrictlyAscending(elems)

\* a fixel whose adjacency grew at the front and in the middle
C2_Witness ==
  /\ pc = "generate"
  /\ \E f \in Fixels :
       LET fx == At(connectivity_matrix, f) IN
       /\ Len(fx.elems) = 3
       /\ fx.track_count = 3
       /\ fx.elems[1].value = 1 /\ fx.elems[2].value = 1 /\ fx.elems[3].value = 3

(***************************************************************************)
(* C3: Scenario A, raw.  As claimed: node0 {0:2,1:2}, node1 {0:2,1:3,2:2}, *)
(* node2 {1:2,2:2}, total_visits [2,3,2].                                  *)
(***************************************************************************)
C3_Original ==
  (pc = "generate" /\ streamlines = ScenarioA) =>
    connectivity_matrix =
      << RawFixel(<< <<0, 2>>, <<1, 2>> >>, 2),
         RawFixel(<< <<0, 2>>, <<1, 3>>, <<2, 2>> >>, 3),
         RawFixel(<< <<1, 2>>, <<2, 2>> >>, 2) >>

\* C3 as amended: streamline {0,1,2} also records fixels 0 and 2 as
\* neighbours of each other: node0 {0:2,1:2,2:1}, node1 {0:2,1:3,2:2},
\* node2 {0:1,1:2,2:2}, total_visits [2,3,2].
C3_ScenarioARaw ==
  (pc = "generate" /\ streamlines = ScenarioA) =>
    /\ At(connectivity_matrix, 0) = RawFixel(<< <<0, 2>>, <<1, 2>>, <<2, 1>> >>, 2)
    /\ At(connectivity_matrix, 1) = RawFixel(<< <<0, 2>>, <<1, 3>>, <<2, 2>> >>, 3)
    /\ At(connectivity_matrix, 2) = RawFixel(<< <<0, 1>>, <<1, 2>>, <<2, 2>> >>, 2)

C3_Witness == pc = "generate" /\ streamlines = ScenarioA

(***************************************************************************)
(* C4: Scenario A, threshold 0.5.  As claimed: node0 exactly {0:1, 1:1},   *)
(* node1 exactly {0:2/3, 1:1, 2:2/3}, node2 exactly {1:1, 2:1}.            *)
(***************************************************************************)
C4_Original ==
  (pc = "normalised" /\ streamlines = ScenarioA /\ connectivity_threshold = Rat(1, 2)) =>
    /\ Pairs(At(data, 0)) = << <<0, Rat(1, 1)>>, <<1, Rat(1, 1)>> >>
    /\ Pairs(At(data, 1)) = << <<0, Rat(2, 3)>>, <<1, Rat(1, 1)>>, <<2, Rat(2, 3)>> >>
    /\ Pairs(At(data, 2)) = << <<1, Rat(1, 1)>>, <<2, Rat(1, 1)>> >>

\* C4 as amended: the edges 0-2 have ratio 1/2, which is >= 0.5, and are
\* kept: node0 {0:1, 1:1, 2:1/2}, node1 {0:2/3, 1:1, 2:2/3},
\* node2 {0:1/2, 1:1, 2:1}.
C4_ScenarioAThresholded ==
  (pc = "normalised" /\ streamlines = ScenarioA /\ connectivity_threshold = Rat(1, 2)) =>
    /\ Pairs(At(data, 0)) = << <<0, Rat(1, 1)>>, <<1, Rat(1, 1)>>, <<2, Rat(1, 2)>> >>
    /\ Pairs(At(data, 1)) = << <<0, Rat(2, 3)>>, <<1, Rat(1, 1)>>, <<2, Rat(2, 3)>> >>
    /\ Pairs(At(data, 2)) = << <<0, Rat(1, 2)>>, <<1, Rat(1, 1)>>, <<2, Rat(1, 1)>> >>

C4_Witness ==
  pc = "normalised" /\ streamlines = ScenarioA /\ connectivity_threshold = Rat(1, 2)

(***************************************************************************)
(* C7: normalise stores for each fixel exactly the raw edges whose ratio   *)
(* count / total_visits is >= the threshold, with that ratio as weight and *)
(* in the ascending id order of the raw adjacency; nothing else.           *)
(***************************************************************************)
\* count / total >= threshold, and weight = count / total, on integers
RatioKept(count, total, threshold) ==
  count * threshold.den >= threshold.num * total
IsRatio(weight, count, total) ==
  weight.den # 0 /\ weight.num * total = count * weight.den

NormalisePost(raw, out, threshold) ==
  /\ \A k \in 1 .. Len(raw.elems) :
       RatioKept(raw.elems[k].value, raw.track_count, threshold)
       => \E j \in 1 .. Len(out.elems) :
            /\ out.elems[j].index = raw.elems[k].index
            /\ IsRatio(out.elems[j].value, raw.elems[k].value, raw.track_count)
  /\ \A j \in 1 .. Len(out.elems) :
       \E k \in 1 .. Len(raw.elems) :
         /\ out.elems[j].index = raw.elems[k].index
         /\ RatioKept(raw.elems[k].value, raw.track_count, threshold)
  /\ StrictlyAscending(out.elems)

C7_NormaliseKeepsExactly ==
  [][ (pc = "generate" /\ pc' = "normalised")
      => /\ Len(data') = Len(connectivity_matrix)
         /\ \A f \in Fixels :
              NormalisePost(At(connectivity_matrix, f), At(data', f),
                            connectivity_threshold')
    ]_vars

\* a fixel that lost one neighbour to the threshold and kept another
C7_Witness ==
  /\ pc = "normalised"
  /\ \E f, g \in Fixels :
       /\ VisitedTogether({f, g})
       /\ g \notin Ids(At(data, f).elems)
       /\ Len(At(data, f).elems) >= 2

(***************************************************************************)
(* C8: every raw count of fixel f is between 1 and f's total_visits and a  *)
(* visited fixel has its self-entry with count = total_visits; after       *)
(* normalise with a threshold in [0,1] every kept weight is in [0,1], and  *)
(* a visited fixel keeps its self-edge, with weight exactly 1.             *)
(***************************************************************************)
C8_WeightRange ==
  /\ pc = "generate" =>
       \A f \in Fixels :
         LET fx == At(connectivity_matrix, f) IN
         /\ \A k \in 1 .. Len(fx.elems) :
              1 <= fx.elems[k].value /\ fx.elems[k].value <= fx.track_count
         /\ fx.track_count > 0 => CountOf(fx.elems, f) = fx.track_count
         /\ fx.track_count > 0 <=> VisitedTogether({f})
  /\ pc = "normalised" =>
       \A f \in Fixels :
         LET nf == At(data, f) IN
         /\ \A k \in 1 .. Len(nf.elems) :
              /\ RatGE(nf.elems[k].value, RatZero)
              /\ RatGE(RatOne, nf.elems[k].value)
         /\ VisitedTogether({f}) =>
              \E k \in 1 .. Len(nf.elems) :
                nf.elems[k].index = f /\ nf.elems[k].value = RatOne

\* a visited fixel with a neighbour of weight below 1, threshold 1/2
C8_Witness ==
  /\ pc = "normalised"
  /\ connectivity_threshold = Rat(1, 2)
  /\ \E f \in Fixels :
       /\ VisitedTogether({f})
       /\ \E k \in 1 .. Len(At(data, f).elems) :
            At(data, f).elems[k].value = Rat(2, 3)

(***************************************************************************)
(* C9: after normalise, norm_multiplier is 1 / (sum of the kept weights)   *)
(* for a fixel with at least one kept edge and 1 for a fixel with none.    *)
(***************************************************************************)
C9_NormMultiplier ==
  pc = "normalised" =>
    \A f \in Fixels :
      LET nf == At(data, f) IN
      IF Len(nf.elems) > 0
      THEN nf.norm_multiplier = RatDiv(RatOne, SumValues(nf.elems, 1, RatZero))
      ELSE nf.norm_multiplier = RatOne

(***************************************************************************)
(* C10: load (save (G)) has as many fixels as G and, for every fixel, the  *)
(* same sequence of (neighbour id, weight) pairs.                          *)
(***************************************************************************)
C10_RoundTrip ==
  pc = "loaded" =>
    /\ loaded.ok
    /\ Len(loaded.matrix) = Len(data)
    /\ \A k \in 1 .. Len(data) : Pairs(loaded.matrix[k]) = Pairs(data[k])

(***************************************************************************)
(* C5: the matrix generate() returns depends only on the multiset of       *)
(* visited-fixel lists, not on the order in which they reach the sink:     *)
(* every order of the same lists gives the same adjacency lists, counts    *)
(* and total_visits, and the same normalised weights.                      *)
(***************************************************************************)
RECURSIVE SequentialFrom(_, _, _)
SequentialFrom(matrix, lists, k) ==
  IF k > Len(lists) THEN matrix
  ELSE SequentialFrom(GenerateSink(matrix, lists[k]), lists, k + 1)

\* the matrix built when the lists reach the sink one after the other
Sequential(lists) == SequentialFrom(InitMatrixOf(GenFixels), lists, 1)

Reordered(lists, p) == [k \in 1 .. Len(lists) |-> lists[p[k]]]

C5_OrderIndependent ==
  pc = "returned" =>
    \A p \in Permutations(1 .. Len(tracks)) :
      /\ connectivity_matrix = Sequential(Reordered(tracks, p))
      /\ \A threshold \in Thresholds :
           NormaliseMatrix(connectivity_matrix, threshold) =
             NormaliseMatrix(Sequential(Reordered(tracks, p)), threshold)

\* two different lists sharing a fixel reached the sink in the order
\* opposite to that of the track file
C5_Witness ==
  /\ pc = "returned"
  /\ Len(tracks) = 2
  /\ arrived = << tracks[2], tracks[1] >>
  /\ tracks[1] # tracks[2]
  /\ ListSet(tracks[1]) \cap ListSet(tracks[2]) # {}

(***************************************************************************)
(* C6: no two threads execute add() on the same fixel at the same time,    *)
(* and the add() calls of one streamline are carried out together by one   *)
(* thread, with no add() of another streamline in between.                 *)
(***************************************************************************)
\* the first n add() calls of the sink functor on one list
RECURSIVE SinkPrefix(_, _, _)
SinkPrefix(matrix, fixels, n) ==
  IF n = 0 THEN matrix
  ELSE LET f == fixels[n]
           m == SinkPrefix(matrix, fixels, n - 1)
       IN Put(m, f, Add(At(m, f), fixels))

\* thread t is between the first and the last add() of its list
InProgress(t) ==
  /\ sink[t] # Idle
  /\ sink[t].adding \/ (1 < sink[t].k /\ sink[t].k <= Len(sink[t].fixels))

C6_SerialisedInsert ==
  pc = "running" =>
    /\ \A t1, t2 \in SinkIds :
         t1 # t2 =>
           /\ ~ ( /\ sink[t1].adding /\ sink[t2].adding
                  /\ sink[t1].fixels[sink[t1].k] = sink[t2].fixels[sink[t2].k] )
           /\ ~ (InProgress(t1) /\ sink[t2].adding)
    /\ LET busy == { t \in SinkIds : sink[t] # Idle } IN
       /\ Cardinality(busy) <= 1
       /\ busy = {} => connectivity_matrix = Sequential(arrived)
       /\ \A t \in busy :
            connectivity_matrix =
              SinkPrefix(Sequential(SubSeq(arrived, 1, Len(arrived) - 1)),
                         sink[t].fixels, sink[t].k - 1)

\* the sink thread is inside its second add() of a list while the next list
\* waits in the queue
C6_Witness ==
  /\ pc = "running"
  /\ \E t \in SinkIds : sink[t].adding /\ sink[t].k = 2
  /\ Len(queue) > 0

(***************************************************************************)
(* C11: save writes one line per fixel, in fixel order, and line i holds   *)
(* the comma-separated index:value entries of fixel i alone (an empty line *)
(* for a fixel without entries).                                           *)
(***************************************************************************)
\* the lines of a text, each ended by a newline
RECURSIVE FileLines(_)
FileLines(text) ==
  IF Len(text) = 0 THEN << >>
  ELSE LET g == GetLine(text, 1, << >>) IN << g.line >> \o FileLines(g.rest)

C11_OneLinePerNode ==
  pc = "saved" =>
    /\ Len(FileLines(file)) = Len(data)
    /\ \A k \in 1 .. Len(data) :
         FileLines(file)[k] = SaveEntries(data[k], 0, << >>)

(***************************************************************************)
(* The commands that read a matrix file.  fixelcfestats builds an          *)
(* IndexRemapper from the fixel mask (or from the number of fixels when no *)
(* mask is given) and loads the matrix through it.                         *)
(***************************************************************************)
LoadFixels == 2
MaxLines == 2

\* IndexRemapper::invalid
invalid == index_type_max

RECURSIVE CountTrue(_, _)
CountTrue(fixel_mask, n) ==
  IF n = 0 THEN 0
  ELSE CountTrue(fixel_mask, n - 1) + (IF fixel_mask[n] THEN 1 ELSE 0)

\* IndexRemapper (num_fixels): external and internal indices coincide
IndexRemapperOfCount(num_fixels) ==
  [default |-> TRUE, external2internal |-> [e \in 1 .. num_fixels |-> e - 1]]

\* IndexRemapper (fixel_mask): the fixels inside the mask are numbered in
\* order, the others have no internal index
IndexRemapperOfMask(fixel_mask) ==
  [default |-> FALSE,
   external2internal |->
     [e \in 1 .. Len(fixel_mask) |->
        IF fixel_mask[e] THEN CountTrue(fixel_mask, e - 1) ELSE invalid]]

num_external(remapper) == Len(remapper.external2internal)
num_internal(remapper) ==
  Cardinality({ e \in 1 .. num_external(remapper) :
                  remapper.external2internal[e] # invalid })

\* e2i (e): external2internal[e]; past the end of the vector the read is
\* out of bounds and gives the value oob
e2i(remapper, e, oob) ==
  IF e < num_external(remapper) THEN remapper.external2internal[e + 1] ELSE oob

\* loop of parse_line<NormFixel> (line, index_remapper) over the entries
RECURSIVE ParseEntriesRemap(_, _, _, _, _, _)
ParseEntriesRemap(line, entries, k, fixel_data, remapper, oob) ==
  IF k > Len(entries) THEN [ok |-> TRUE, fixel |-> fixel_data]
  ELSE LET pair == Split(entries[k], ":") IN
       IF Len(pair) # 2
       THEN [ok |-> FALSE, what |-> "unpaired", line |-> line, entry |-> entries[k]]
       ELSE LET external_index == ToIndex(pair[1]) IN
            IF ~external_index.ok
            THEN [ok |-> FALSE, what |-> "conversion", line |-> line,
                  entry |-> entries[k]]
            ELSE LET internal_index == e2i(remapper, external_index.value, oob) IN
                 IF internal_index = invalid
                 THEN ParseEntriesRemap(line, entries, k + 1, fixel_data, remapper, oob)
                 ELSE LET value == ToValue(pair[2]) IN
                      IF value.ok
                      THEN ParseEntriesRemap(line, entries, k + 1,
                             [fixel_data EXCEPT !.elems =
                                Append(@, NormElement(internal_index, value.value))],
                             remapper, oob)
                      ELSE [ok |-> FALSE, what |-> "conversion", line |-> line,
                            entry |-> entries[k]]

ParseLineRemap(line, remapper, oob) ==
  ParseEntriesRemap(line, Split(line, ","), 1, NormFixelEmpty, remapper, oob)

\* load<norm_matrix_type> (filepath, index_remapper): one row per line of the
\* file; the line of a fixel outside the mask gives an empty row unparsed
RECURSIVE LoadRemapLoop(_, _, _, _, _)
LoadRemapLoop(text, fixel_data, counter, remapper, oob) ==
  IF Len(text) = 0 THEN [ok |-> TRUE, matrix |-> fixel_data]
  ELSE LET g == GetLine(text, 1, << >>) IN
       IF e2i(remapper, counter, oob) = invalid
       THEN LoadRemapLoop(g.rest, Append(fixel_data, NormFixelEmpty), counter + 1, remapper, oob)
       ELSE LET p == ParseLineRemap(g.line, remapper, oob) IN
            IF p.ok
            THEN LoadRemapLoop(g.rest, Append(fixel_data, p.fixel), counter + 1, remapper, oob)
            ELSE p

LoadRemap(text, remapper, oob) == LoadRemapLoop(text, << >>, 0, remapper, oob)

\* lines a matrix file of the model is made of: well formed (the ids 0 and 1
\* exist in every model, the id 9 in none), unpaired, and with an id or a
\* value that is no number
FileLineSet ==
  { << >>,
    << "0", ":", "1" >>,
    << "0", ":", "0", ".", "5", ",", "1", ":", "1" >>,
    << "1", ":", "0", ".", "5" >>,
    << "9", ":", "1" >>,
    << "0", ":", "1", ":", "1" >>,
    << "x", ":", "1" >>,
    << "1", ":", "x" >> }

RECURSIVE SeqsUpTo(_, _)
SeqsUpTo(S, n) ==
  IF n = 0 THEN { << >> }
  ELSE LET shorter == SeqsUpTo(S, n - 1)
       IN shorter \cup { Append(q, x) : q \in { r \in shorter : Len(r) = n - 1 }, x \in S }

RECURSIVE TextOf(_)
TextOf(lines) ==
  IF Len(lines) = 0 THEN << >>
  ELSE lines[1] \o << "\n" >> \o TextOf(Tail(lines))

Masks(num_fixels) == [1 .. num_fixels -> BOOLEAN]

\* values an out-of-bounds read of external2internal can give
OutOfBoundsReads == { invalid, 0 }

InitLoad ==
  /\ pc = "start"
  /\ connectivity_matrix = << >>
  /\ streamlines = EmptyBag
  /\ connectivity_threshold = RatZero
  /\ data = << >>
  /\ file \in { TextOf(lines) : lines \in SeqsUpTo(FileLineSet, MaxLines) }
  /\ loaded = [ok |-> TRUE, matrix |-> << >>]
  /\ GenIdle
  /\ index_remapper \in
       { IndexRemapperOfCount(LoadFixels) }
         \cup { IndexRemapperOfMask(fixel_mask) : fixel_mask \in Masks(LoadFixels) }
  /\ StatsIdle
  /\ ParIdle
  /\ SmoothIdle
  /\ GlmIdle

\* index_remapper.is_default(): load (filepath)
LoadDefault ==
  /\ pc = "start"
  /\ index_remapper.default
  /\ loaded' = Load(file)
  /\ pc' = "loaded"
  /\ UNCHANGED << connectivity_matrix, streamlines, connectivity_threshold, data, file,
                  genVars, cmdVars >>

\* otherwise: load (filepath, index_remapper)
LoadRemapped(oob) ==
  /\ pc = "start"
  /\ ~index_remapper.default
  /\ loaded' = LoadRemap(file, index_remapper, oob)
  /\ pc' = "loaded"
  /\ UNCHANGED << connectivity_matrix, streamlines, connectivity_threshold, data, file,
                  genVars, cmdVars >>

NextLoad ==
  \/ LoadDefault
  \/ \E oob \in OutOfBoundsReads : LoadRemapped(oob)

SpecLoad == InitLoad /\ [][NextLoad]_vars

(***************************************************************************)
(* C12: when a line of the matrix file has an entry that is not one        *)
(* id:value pair, or whose id or value is no number, load ends with an     *)
(* error that carries that line and that entry and delivers no matrix,     *)
(* with and without an index remapper.                                     *)
(***************************************************************************)
BadEntry(entry) ==
  LET pair == Split(entry, ":")
  IN \/ Len(pair) # 2
     \/ ~ToIndex(pair[1]).ok
     \/ ~ToValue(pair[2]).ok

BadLine(line) == \E k \in 1 .. Len(Split(line, ",")) : BadEntry(Split(line, ",")[k])

Malformed(text) == \E k \in 1 .. Len(FileLines(text)) : BadLine(FileLines(text)[k])

C12_MalformedFails ==
  (pc = "loaded" /\ Malformed(file)) =>
    /\ ~loaded.ok
    /\ BadLine(loaded.line)
    /\ BadEntry(loaded.entry)
    /\ \E k \in 1 .. Len(FileLines(file)) :
         /\ FileLines(file)[k] = loaded.line
         /\ \E j \in 1 .. Len(Split(loaded.line, ",")) :
              Split(loaded.line, ",")[j] = loaded.entry

(***************************************************************************)
(* fixelcfestats: run().  The command loads the connectivity matrix,       *)
(* checks its size against the fixel template, pre-conditions it for CFE,  *)
(* loads the input data, builds the GLM test and hands it to the           *)
(* permutation testing functions.                                          *)
(***************************************************************************)
StatFixels == 2
StatSubjects == 2
NumPerms == 2

\* a * b
RatMul(a, b) == IF a = RatNaN \/ b = RatNaN THEN RatNaN
                ELSE IF a.den = 0 \/ b.den = 0
                     THEN (IF a = RatZero \/ b = RatZero THEN RatNaN ELSE RatInf)
                ELSE Rat(a.num * b.num, a.den * b.den)

\* std::pow (a, C) for a whole exponent C >= 0
RECURSIVE RatPow(_, _)
RatPow(a, C) == IF C = 0 THEN RatOne ELSE RatMul(a, RatPow(a, C - 1))

\* NormElement::exponentiate (C)
Exponentiate(elem, C) == [elem EXCEPT !.value = RatPow(@, C)]

\* for (auto& f : fixel) f.exponentiate (cfe_c): every element of the row is
\* exponentiated where it is stored
ExponentiateInPlace(fixel, cfe_c) ==
  [fixel EXCEPT !.elems = [k \in 1 .. Len(fixel.elems) |->
                             Exponentiate(fixel.elems[k], cfe_c)]]

\* for (auto f : fixel) f.exponentiate (cfe_c): f is a copy of the element, the
\* copy is exponentiated and dropped at the end of the iteration; the row of
\* the matrix is left as it was
ExponentiateLoop(fixel, cfe_c) ==
  LET f == [k \in 1 .. Len(fixel.elems) |-> Exponentiate(fixel.elems[k], cfe_c)]
  IN fixel

\* body of the pre-conditioning loop for a fixel that has entries
PreconditionFixel(fixel, cfe_c, cfe_norm) ==
  IF cfe_norm THEN NormFixelNormalise(ExponentiateLoop(fixel, cfe_c))
  ELSE ExponentiateLoop(fixel, cfe_c)

\* the pre-conditioning loop over fixel_index = 0 .. mask_fixels - 1
RECURSIVE PreconditionLoop(_, _, _, _, _, _)
PreconditionLoop(matrix, fixel_index, mask_fixels, cfe_c, cfe_norm, unconnected) ==
  IF fixel_index = mask_fixels
  THEN [matrix |-> matrix, num_unconnected_fixels |-> unconnected]
  ELSE IF Len(At(matrix, fixel_index).elems) # 0
       THEN PreconditionLoop(
              Put(matrix, fixel_index,
                  PreconditionFixel(At(matrix, fixel_index), cfe_c, cfe_norm)),
              fixel_index + 1, mask_fixels, cfe_c, cfe_norm, unconnected)
       ELSE PreconditionLoop(matrix, fixel_index + 1, mask_fixels, cfe_c, cfe_norm,
                             unconnected + 1)

\* lines of the matrix files given to fixelcfestats
StatLineSet ==
  { << >>,
    << "0", ":", "1", ",", "1", ":", "0", ".", "5" >> }

StatFiles ==
  { TextOf(lines) :
      lines \in { l \in SeqsUpTo(StatLineSet, StatFixels + 1) : Len(l) >= StatFixels - 1 } }

\* input data, one row per subject and one column per fixel of the mask: all
\* finite, or with a NaN or an infinite measurement
AllOnes(columns) == [s \in 1 .. StatSubjects |-> [f \in 1 .. columns |-> RatOne]]
MeasurementSets(columns) ==
  { AllOnes(columns) }
    \cup (IF columns = 0 THEN { }
          ELSE { [AllOnes(columns) EXCEPT ![1][1] = RatNaN],
                 [AllOnes(columns) EXCEPT ![StatSubjects][columns] = RatInf] })

\* Eigen allFinite()
AllFinite(m) == \A s \in DOMAIN m : \A f \in DOMAIN m[s] : RatIsFinite(m[s][f])

\* num_fixels of the template; the mask must match the template
num_fixels == num_external(index_remapper)
mask_fixels == num_internal(index_remapper)

InitStats ==
  /\ pc = "start"
  /\ connectivity_matrix = << >>
  /\ streamlines = EmptyBag
  /\ connectivity_threshold = RatZero
  /\ data = << >>
  /\ file \in StatFiles
  /\ loaded = [ok |-> TRUE, matrix |-> << >>]
  /\ GenIdle
  /\ index_remapper \in
       { IndexRemapperOfCount(StatFixels) }
         \cup { IndexRemapperOfMask(fixel_mask) : fixel_mask \in Masks(StatFixels) }
  /\ options \in [cfe_c : { 1, 2 }, cfe_norm : BOOLEAN, nonstationarity : BOOLEAN,
                  notest : BOOLEAN]
  /\ norm_connectivity_matrix = << >>
  /\ num_unconnected_fixels = 0
  /\ warned = FALSE
  /\ measurements = << >>
  /\ extra_columns = 0
  /\ nans_in_data = FALSE
  /\ glm_test = NoTest
  /\ calls = << >>
  /\ error = "none"
  /\ SmoothIdle
  /\ GlmIdle
  /\ ParIdle

\* variables of fixelconnectivity and of the GLM library, which the steps of
\* fixelcfestats and of the Smooth filter modelled here leave alone
idleVars == << connectivity_matrix, streamlines, connectivity_threshold, data, genVars,
            glmVars, parVars >>

\* load of the matrix, through the remapper unless it is the default one
StatsLoad(oob) ==
  /\ pc = "start"
  /\ loaded' = IF index_remapper.default THEN Load(file)
               ELSE LoadRemap(file, index_remapper, oob)
  /\ IF loaded'.ok
     THEN /\ norm_connectivity_matrix' = loaded'.matrix
          /\ pc' = "loaded"
          /\ error' = error
     ELSE /\ norm_connectivity_matrix' = norm_connectivity_matrix
          /\ pc' = "failed"
          /\ error' = loaded'.what
  /\ UNCHANGED << idleVars, smoothVars >>
  /\ UNCHANGED << file, index_remapper, options, num_unconnected_fixels, warned,
                  measurements, extra_columns, nans_in_data, glm_test, calls >>

\* if (norm_connectivity_matrix->size() != num_fixels) throw
StatsCheckSize ==
  /\ pc = "loaded"
  /\ IF Len(norm_connectivity_matrix) # num_fixels
     THEN pc' = "failed" /\ error' = "size"
     ELSE pc' = "checked" /\ error' = error
  /\ UNCHANGED << idleVars, smoothVars >>
  /\ UNCHANGED << file, loaded, index_remapper, options, norm_connectivity_matrix,
                  num_unconnected_fixels, warned, measurements, extra_columns,
                  nans_in_data, glm_test, calls >>

WarnAlways(unconnected) == TRUE

\* if (num_unconnected_fixels) WARN (...)
Warn(unconnected) == unconnected # 0

\* the pre-conditioning block
StatsPrecondition ==
  /\ pc = "checked"
  /\ LET r == PreconditionLoop(norm_connectivity_matrix, 0, mask_fixels,
                               options.cfe_c, options.cfe_norm, 0)
     IN /\ norm_connectivity_matrix' = r.matrix
        /\ num_unconnected_fixels' = r.num_unconnected_fixels
        /\ warned' = Warn(r.num_unconnected_fixels)
  /\ pc' = "preconditioned"
  /\ UNCHANGED << idleVars, smoothVars >>
  /\ UNCHANGED << file, loaded, index_remapper, options, measurements,
                  extra_columns, nans_in_data, glm_test, calls, error >>

TestOfMeasurementsOnly(columns, nans) ==
  IF nans THEN [kind |-> "TestVariable"] ELSE [kind |-> "TestFixed"]

\* if (extra_columns.size() || nans_in_data) TestVariable else TestFixed
TestOf(columns, nans) ==
  IF columns # 0 \/ nans THEN [kind |-> "TestVariable"] ELSE [kind |-> "TestFixed"]

\* the input data and the element-wise design columns are loaded and the GLM
\* test is constructed
StatsConstructTest(m, columns) ==
  /\ pc = "preconditioned"
  /\ measurements' = m
  /\ extra_columns' = columns
  /\ nans_in_data' = ~AllFinite(m)
  /\ glm_test' = TestOf(columns, ~AllFinite(m))
  /\ pc' = "constructed"
  /\ UNCHANGED << idleVars, smoothVars >>
  /\ UNCHANGED << file, loaded, index_remapper, options, norm_connectivity_matrix,
                  num_unconnected_fixels, warned, calls, error >>

Call(phase) == [phase |-> phase, test |-> glm_test]

StatsEmpiricalAlways ==
  /\ pc = "constructed"
  /\ calls' = Append(calls, Call("empirical"))
  /\ pc' = "empirical"
  /\ UNCHANGED << idleVars, smoothVars >>
  /\ UNCHANGED << file, loaded, index_remapper, options, norm_connectivity_matrix,
                  num_unconnected_fixels, warned, measurements, extra_columns,
                  nans_in_data, glm_test, error >>

\* if (do_nonstationarity_adjustment) precompute_empirical_stat (glm_test, ...)
StatsEmpirical ==
  /\ pc = "constructed"
  /\ calls' = IF options.nonstationarity THEN Append(calls, Call("empirical")) ELSE calls
  /\ pc' = "empirical"
  /\ UNCHANGED << idleVars, smoothVars >>
  /\ UNCHANGED << file, loaded, index_remapper, options, norm_connectivity_matrix,
                  num_unconnected_fixels, warned, measurements, extra_columns,
                  nans_in_data, glm_test, error >>

\* precompute_default_permutation (glm_test, ...)
StatsDefault ==
  /\ pc = "empirical"
  /\ calls' = Append(calls, Call("default"))
  /\ pc' = IF options.notest THEN "done" ELSE "shuffling"
  /\ UNCHANGED << idleVars, smoothVars >>
  /\ UNCHANGED << file, loaded, index_remapper, options, norm_connectivity_matrix,
                  num_unconnected_fixels, warned, measurements, extra_columns,
                  nans_in_data, glm_test, error >>

Shuffles(c) == Cardinality({ k \in 1 .. Len(c) : c[k].phase = "shuffle" })

\* run_permutations (glm_test, ...): one shuffle is evaluated
StatsShuffle ==
  /\ pc = "shuffling"
  /\ Shuffles(calls) < NumPerms
  /\ calls' = Append(calls, Call("shuffle"))
  /\ UNCHANGED << idleVars, smoothVars >>
  /\ UNCHANGED << pc, file, loaded, index_remapper, options,
                  norm_connectivity_matrix, num_unconnected_fixels, warned, measurements,
                  extra_columns, nans_in_data, glm_test, error >>

\* run_permutations has returned: fwe_pvalue (null_distribution, cfe_output)
StatsFinalize ==
  /\ pc = "shuffling"
  /\ Shuffles(calls) = NumPerms
  /\ pc' = "finalize"
  /\ UNCHANGED << idleVars, smoothVars >>
  /\ UNCHANGED << file, loaded, index_remapper, statsVars >>

\* the p-values are written and run() returns
StatsOutput ==
  /\ pc = "finalize"
  /\ pc' = "done"
  /\ UNCHANGED << idleVars, smoothVars >>
  /\ UNCHANGED << file, loaded, index_remapper, statsVars >>

NextStats ==
  \/ \E oob \in OutOfBoundsReads : StatsLoad(oob)
  \/ StatsCheckSize
  \/ StatsPrecondition
  \/ \E m \in MeasurementSets(mask_fixels), columns \in 0 .. 1 :
       StatsConstructTest(m, columns)
  \/ StatsEmpirical
  \/ StatsDefault
  \/ StatsShuffle
  \/ StatsFinalize
  \/ StatsOutput

SpecStats == InitStats /\ [][NextStats]_vars

(***************************************************************************)
(* Fixel::Filter::Smooth.  The constructor reads the matrix file one line  *)
(* at a time and turns every line into a row of the smoothing matrix;      *)
(* operator() applies the smoothing matrix to a fixel data file.           *)
(***************************************************************************)
SmoothFixels == 2

\* lines of the matrix files given to the filter
SmoothLineSet ==
  { << >>,
    << "0", ":", "1", ",", "1", ":", "0", ".", "5" >>,
    << "9", ":", "1" >> }

SmoothFiles ==
  { TextOf(lines) : lines \in SeqsUpTo(SmoothLineSet, SmoothFixels + 1) \ { << >> } }

\* gaussian_const1, exp (gaussian_const2) and the threshold: the weight of a
\* neighbour at squared distance d is value * gaussian_const1 * attenuation^d
Kernels ==
  { [gaussian_const1 |-> Rat(1, 2), attenuation |-> Rat(1, 2), threshold |-> t] :
      t \in { Rat(1, 100), Rat(1, 4), RatOne } }

\* positions along one axis: all fixels in one voxel, or one voxel per fixel
PositionSets ==
  { [f \in 1 .. SmoothFixels |-> 0], [f \in 1 .. SmoothFixels |-> f - 1] }

\* loop of the functor over the entries of input_fixel: the entries kept and
\* the sum of their weights
RECURSIVE KernelLoop(_, _, _, _, _, _)
KernelLoop(input_fixel, k, pos, positions, krn, acc) ==
  IF k > Len(input_fixel.elems) THEN acc
  ELSE LET it == input_fixel.elems[k]
           d == At(positions, it.index) - pos
           sq_distance == d * d
           weight == RatMul(RatMul(it.value, krn.gaussian_const1),
                            RatPow(krn.attenuation, sq_distance))
       IN IF RatGE(weight, krn.threshold)
          THEN KernelLoop(input_fixel, k + 1, pos, positions, krn,
                 [elems |-> Append(acc.elems, NormElement(it.index, weight)),
                  sum_weights |-> RatAdd(acc.sum_weights, weight)])
          ELSE KernelLoop(input_fixel, k + 1, pos, positions, krn, acc)

\* NormElement::normalise (norm_factor)
ElementNormalise(elem, norm_factor) ==
  [elem EXCEPT !.value = RatMul(@, norm_factor)]

\* for (auto i : output_fixel) i.normalise (norm_factor): i is a copy of the
\* element, so the weights stored in output_fixel stay as they were
NormaliseLoop(elems, norm_factor) ==
  LET i == [k \in 1 .. Len(elems) |-> ElementNormalise(elems[k], norm_factor)]
  IN elems

\* the row the functor stores for line in_first with content input_fixel
OutputFixel(in_first, input_fixel, positions, krn) ==
  LET r == KernelLoop(input_fixel, 1, At(positions, in_first), positions, krn,
                      [elems |-> << >>, sum_weights |-> RatZero])
  IN IF r.sum_weights # RatZero
     THEN [elems |-> NormaliseLoop(r.elems, RatDiv(RatOne, r.sum_weights)),
           norm_multiplier |-> RatOne]
     ELSE [elems |-> Append(r.elems, NormElement(in_first, RatOne)),
           norm_multiplier |-> RatOne]

\* the line with index in_first and its ids are within the arrays
WithinArrays(in_first, input_fixel, size) ==
  /\ in_first < size
  /\ \A k \in 1 .. Len(input_fixel.elems) : input_fixel.elems[k].index < size

InitSmooth ==
  /\ pc = "constructing"
  /\ connectivity_matrix = << >>
  /\ streamlines = EmptyBag
  /\ connectivity_threshold = RatZero
  /\ data = << >>
  /\ file \in SmoothFiles
  /\ loaded = [ok |-> TRUE, matrix |-> << >>]
  /\ GenIdle
  /\ index_remapper = [default |-> TRUE, external2internal |-> << >>]
  /\ StatsIdle
  /\ ParIdle
  /\ kernel \in Kernels
  /\ fixel_positions \in PositionSets
  /\ smoothing_matrix = [f \in 1 .. SmoothFixels |-> NormFixelEmpty]
  /\ processed = { }
  /\ out_of_range = FALSE
  /\ input = << >>
  /\ output = << >>
  /\ GlmIdle

\* the functor is called with line in_first of the file
SmoothFunctor(in_first) ==
  /\ pc = "constructing"
  /\ in_first \in 0 .. Len(FileLines(file)) - 1
  /\ in_first \notin processed
  /\ processed' = processed \cup { in_first }
  /\ LET p == ParseLine(FileLines(file)[in_first + 1]) IN
     IF ~p.ok
     THEN /\ pc' = "failed"
          /\ error' = p.what
          /\ UNCHANGED << smoothing_matrix, out_of_range >>
     ELSE IF ~WithinArrays(in_first, p.fixel, Len(fixel_positions))
     THEN /\ pc' = "undefined"
          /\ out_of_range' = TRUE
          /\ UNCHANGED << smoothing_matrix, error >>
     ELSE /\ smoothing_matrix' =
               Put(smoothing_matrix, in_first,
                   OutputFixel(in_first, p.fixel, fixel_positions, kernel))
          /\ UNCHANGED << pc, error, out_of_range >>
  /\ UNCHANGED << idleVars, file, loaded, index_remapper, kernel, fixel_positions, input,
                  output >>
  /\ UNCHANGED << options, norm_connectivity_matrix, num_unconnected_fixels, warned,
                  measurements, extra_columns, nans_in_data, glm_test, calls >>

\* Thread::run_queue returns when every line has been handled
SmoothConstructed ==
  /\ pc = "constructing"
  /\ processed = 0 .. Len(FileLines(file)) - 1
  /\ pc' = "constructed"
  /\ UNCHANGED << idleVars, file, loaded, cmdVars >>

\* value written for one fixel by operator()
SmoothValue(m, in, fixel) ==
  IF RatIsFinite(At(in, fixel))
  THEN LET finite == { k \in 1 .. Len(At(m, fixel).elems) :
                         RatIsFinite(At(in, At(m, fixel).elems[k].index)) }
           Sum[S \in SUBSET finite] ==
             IF S = { } THEN [value |-> RatZero, sum_weights |-> RatZero]
             ELSE LET k == CHOOSE x \in S : TRUE
                      it == At(m, fixel).elems[k]
                      rest == Sum[S \ { k }]
                  IN [value |-> RatAdd(rest.value, RatMul(At(in, it.index), it.value)),
                      sum_weights |-> RatAdd(rest.sum_weights, it.value)]
           r == Sum[finite]
       IN IF r.sum_weights # RatZero THEN RatDiv(r.value, r.sum_weights) ELSE RatNaN
  ELSE RatNaN

\* fixel data files given to operator(): all ones, or with a NaN
SmoothInputs ==
  UNION { { [f \in 1 .. n |-> RatOne],
            [f \in 1 .. n |-> IF f = 1 THEN RatNaN ELSE RatOne] } :
          n \in SmoothFixels - 1 .. SmoothFixels + 1 }

\* Smooth::operator() (input, output)
SmoothApply(in) ==
  /\ pc = "constructed"
  /\ input' = in
  /\ IF Len(in) # Len(smoothing_matrix)
     THEN /\ pc' = "failed"
          /\ error' = "size"
          /\ output' = output
     ELSE /\ pc' = "smoothed"
          /\ error' = error
          /\ output' = [f \in 1 .. Len(smoothing_matrix) |->
                          SmoothValue(smoothing_matrix, in, f - 1)]
  /\ UNCHANGED << idleVars, file, loaded, index_remapper, kernel, fixel_positions,
                  smoothing_matrix, processed, out_of_range >>
  /\ UNCHANGED << options, norm_connectivity_matrix, num_unconnected_fixels, warned,
                  measurements, extra_columns, nans_in_data, glm_test, calls >>

NextSmooth ==
  \/ \E in_first \in 0 .. SmoothFixels : SmoothFunctor(in_first)
  \/ SmoothConstructed
  \/ \E in \in SmoothInputs : SmoothApply(in)

SpecSmooth == InitSmooth /\ [][NextSmooth]_vars

(***************************************************************************)
(* C13: when the number of fixels in the matrix file differs from the      *)
(* number of fixels of the data, the operation ends with an error before   *)
(* anything is computed: Smooth::operator() throws and writes no output    *)
(* value.                                                                  *)
(***************************************************************************)
C13_SizeMismatchFails ==
  (input # << >> /\ Len(FileLines(file)) # Len(input)) =>
    /\ pc = "failed"
    /\ error = "size"
    /\ output = << >>

(***************************************************************************)
(* C14: every neighbour id a consumer finds in a matrix of N fixels is in  *)
(* [0, N), and the construction of the Smooth filter never indexes the     *)
(* fixel positions or the matrix outside of that range.                    *)
(***************************************************************************)
C14_NoDanglingIndex ==
  /\ ~out_of_range
  /\ \A f \in 1 .. Len(smoothing_matrix) :
       \A k \in 1 .. Len(smoothing_matrix[f].elems) :
         smoothing_matrix[f].elems[k].index \in 0 .. Len(smoothing_matrix) - 1

(***************************************************************************)
(* C15: after the pre-conditioning step with connectivity exponent C every *)
(* weight w of a connected fixel in the processed range has been replaced  *)
(* by w^C, and without -cfe_legacy the norm_multiplier of that fixel is    *)
(* 1 / (sum of its exponentiated weights).                                 *)
(***************************************************************************)
Preconditioned ==
  pc \in { "preconditioned", "constructed", "empirical", "shuffling", "done" }

C15_ExponentiatedInPlace ==
  Preconditioned =>
    \A f \in 0 .. mask_fixels - 1 :
      LET before == At(loaded.matrix, f)
          after  == At(norm_connectivity_matrix, f)
      IN Len(before.elems) # 0 =>
           /\ after.elems = ExponentiateInPlace(before, options.cfe_c).elems
           /\ options.cfe_norm =>
                after.norm_multiplier =
                  RatDiv(RatOne, SumValues(ExponentiateInPlace(before, options.cfe_c).elems,
                                           1, RatZero))

(***************************************************************************)
(* C16: a fixel without entries is not fatal: pre-conditioning leaves its  *)
(* row empty and its norm_multiplier as loaded, the run goes on to the     *)
(* statistics, and the warning is issued exactly when at least one fixel   *)
(* in the processed range has an empty row.                                *)
(***************************************************************************)
EmptyRows == { f \in 0 .. mask_fixels - 1 : Len(At(loaded.matrix, f).elems) = 0 }

C16_UnconnectedNotFatal ==
  /\ Preconditioned =>
       /\ \A f \in 0 .. num_fixels - 1 :
            Len(At(loaded.matrix, f).elems) = 0 =>
              At(norm_connectivity_matrix, f) = NormFixelEmpty
       /\ num_unconnected_fixels = Cardinality(EmptyRows)
       /\ warned <=> EmptyRows # { }
       /\ error = "none"
  /\ (pc = "preconditioned" /\ EmptyRows # { }) =>
       ENABLED (\E m \in MeasurementSets(mask_fixels) : StatsConstructTest(m, 0))
  /\ pc = "failed" => error \in { "size", "unpaired", "conversion" }

C16_Witness ==
  /\ pc = "done"
  /\ EmptyRows # { }
  /\ warned
  /\ \E f \in 0 .. mask_fixels - 1 : Len(At(loaded.matrix, f).elems) # 0

(***************************************************************************)
(* C17: the GLM test is chosen once, before anything is evaluated with it: *)
(* TestVariable exactly when there is an element-wise design column or a   *)
(* non-finite measurement, TestFixed otherwise; the empirical precompute,  *)
(* the default precompute and every shuffle are handed that same object.   *)
(***************************************************************************)
NonFiniteMeasurement ==
  \E s \in DOMAIN measurements : \E f \in DOMAIN measurements[s] :
    ~RatIsFinite(measurements[s][f])

C17_VariantChosenOnce ==
  /\ [](glm_test # NoTest =>
          glm_test.kind = (IF extra_columns > 0 \/ NonFiniteMeasurement
                           THEN "TestVariable" ELSE "TestFixed"))
  /\ [](\A k \in 1 .. Len(calls) : calls[k].test = glm_test /\ calls[k].test # NoTest)
  /\ [][glm_test' # glm_test => (glm_test = NoTest /\ calls = << >>)]_vars

C17_Witness ==
  /\ pc = "done"
  /\ glm_test.kind = "TestVariable"
  /\ extra_columns = 0
  /\ { calls[k].phase : k \in 1 .. Len(calls) } = { "empirical", "default", "shuffle" }

(***************************************************************************)
(* Math::Stats::GLM.  Matrices are sequences of columns; a scalar is an    *)
(* integer.                                                                *)
(***************************************************************************)
DesignCols == 3

\* Eigen any() of a column: some coefficient is not zero
ColAny(col) == \E r \in 1 .. Len(col) : col[r] # 0

\* c.colwise().any().count()
NonzeroColumnCount(c) == Cardinality({ ic \in 1 .. Len(c) : ColAny(c[ic]) })

PartitionLoopAllX(c, dsgn, ic, X, Z) ==
  [X |-> dsgn, Z |-> << >>]

\* the loop of Contrast::operator() over the columns of c
RECURSIVE PartitionLoop(_, _, _, _, _)
PartitionLoop(c, dsgn, ic, X, Z) ==
  IF ic = Len(c) THEN [X |-> X, Z |-> Z]
  ELSE IF ColAny(At(c, ic))
       THEN PartitionLoop(c, dsgn, ic + 1, Append(X, At(dsgn, ic)), Z)
       ELSE PartitionLoop(c, dsgn, ic + 1, X, Append(Z, At(dsgn, ic)))

\* Contrast::operator() (design)
ContrastPartition(c, dsgn) == PartitionLoop(c, dsgn, 0, << >>, << >>)

\* contrast matrices with one row (t-test) or two rows (F-test)
Contrasts ==
  UNION { [1 .. DesignCols -> [1 .. rows -> { 0, 1, -1 }]] : rows \in 1 .. 2 }

\* design matrices of two subjects: all columns different, or all the same
Designs ==
  { [col \in 1 .. DesignCols |-> << col, 10 + col >>],
    [col \in 1 .. DesignCols |-> << 1, 1 >>] }

InitPartition ==
  /\ pc = "start"
  /\ connectivity_matrix = << >>
  /\ streamlines = EmptyBag
  /\ connectivity_threshold = RatZero
  /\ data = << >>
  /\ file = << >>
  /\ loaded = [ok |-> TRUE, matrix |-> << >>]
  /\ GenIdle
  /\ index_remapper = [default |-> TRUE, external2internal |-> << >>]
  /\ StatsIdle
  /\ ParIdle
  /\ SmoothIdle
  /\ contrast \in Contrasts
  /\ design \in Designs
  /\ partition = [X |-> << >>, Z |-> << >>]
  /\ VariableIdle

\* partition = c (design)
DoPartition ==
  /\ pc = "start"
  /\ partition' = ContrastPartition(contrast, design)
  /\ pc' = "partitioned"
  /\ UNCHANGED << connectivity_matrix, seqVars, genVars, parVars, index_remapper, statsVars,
                  smoothVars, contrast, design >>
  /\ UNCHANGED << y, importers, shuffling_matrix, element, element_mask, Mfull_masked,
                  y_masked, perm_matrix_masked, F, betahat >>

NextPartition == DoPartition

SpecPartition == InitPartition /\ [][NextPartition]_vars

(***************************************************************************)
(* C18: Contrast::operator() (design) puts every column of the design in   *)
(* exactly one of X and Z: X is made of the columns whose contrast column  *)
(* has a non-zero entry, Z of those whose contrast column is all zero,     *)
(* both in the order of the design; cols (X) + cols (Z) = cols (design).   *)
(***************************************************************************)
\* the columns of m at the positions in S, in ascending order of position
ColumnsAt(m, S) == [k \in 1 .. Cardinality(S) |-> m[SortedSeq(S)[k]]]

InterestColumns == { ic \in 1 .. Len(contrast) : \E r \in 1 .. Len(contrast[ic]) :
                                                   contrast[ic][r] # 0 }
NuisanceColumns == { ic \in 1 .. Len(contrast) : \A r \in 1 .. Len(contrast[ic]) :
                                                   contrast[ic][r] = 0 }

C18_PartitionCoversColumns ==
  pc = "partitioned" =>
    /\ partition.X = ColumnsAt(design, InterestColumns)
    /\ partition.Z = ColumnsAt(design, NuisanceColumns)
    /\ Len(partition.X) + Len(partition.Z) = Len(design)
    /\ InterestColumns \cap NuisanceColumns = { }
    /\ InterestColumns \cup NuisanceColumns = 1 .. Len(design)
    /\ Len(partition.X) = NonzeroColumnCount(contrast)

C18_Witness ==
  /\ pc = "partitioned"
  /\ Len(partition.X) = 2
  /\ Len(partition.Z) = DesignCols - 2
  /\ InterestColumns = { 1, DesignCols }
  /\ Len(contrast[1]) = 2

(***************************************************************************)
(* TestVariable::operator().  For every element the design matrix is put   *)
(* together from the fixed design and the element-wise columns, and the    *)
(* subjects with non-finite values are taken out of the design, the        *)
(* measurements and the shuffling matrix.  Measurements are stored with    *)
(* one row per element (y.rows() elements, y.cols() subjects).             *)
(***************************************************************************)
GlmSubjects == 2
GlmElements == 2

\* y (row, col), importers[col] (element), M.rows()
Coeff(m, row, col) == m[row + 1][col + 1]
ExtraData(imps, el) == [col \in 1 .. Len(imps) |-> imps[col][el + 1]]
num_subjects(dsgn) == Len(dsgn[1])

\* extra_data.row (row).allFinite()
RowAllFinite(extra, row) == \A col \in 1 .. Len(extra) : RatIsFinite(extra[col][row + 1])

\* for (row = 0; row != y.rows(); ++row)
\*   if (!std::isfinite (y (row, element))) element_mask[row] = false;
RECURSIVE MaskDataLoop(_, _, _, _)
MaskDataLoop(mask, yy, el, row) ==
  IF row = Len(yy) THEN mask
  ELSE MaskDataLoop(IF ~RatIsFinite(Coeff(yy, row, el)) THEN Put(mask, row, FALSE) ELSE mask,
                    yy, el, row + 1)

\* for (row = 0; row != extra_data.rows(); ++row)
\*   if (!extra_data.row (row).allFinite()) element_mask[row] = false;
RECURSIVE MaskColumnsLoop(_, _, _, _)
MaskColumnsLoop(mask, extra, rows, row) ==
  IF row = rows THEN mask
  ELSE MaskColumnsLoop(IF ~RowAllFinite(extra, row) THEN Put(mask, row, FALSE) ELSE mask,
                       extra, rows, row + 1)

\* element_mask of one element
ElementMask(yy, extra, el, nans_data, nans_columns, subjects) ==
  LET all  == [s \in 1 .. subjects |-> TRUE]
      m1   == IF nans_data THEN MaskDataLoop(all, yy, el, 0) ELSE all
  IN IF nans_columns THEN MaskColumnsLoop(m1, extra, subjects, 0) ELSE m1

\* row in_index of the design matrix of the element: M.row, extra_data.row
FullRow(dsgn, extra, in_index) ==
  [col \in 1 .. Len(dsgn) + Len(extra) |->
     IF col <= Len(dsgn) THEN dsgn[col][in_index + 1]
     ELSE extra[col - Len(dsgn)][in_index + 1]]

\* the loop over in_index that fills Mfull_masked and y_masked and clears
\* perm_matrix_mask
RECURSIVE ReduceLoop(_, _, _, _, _, _, _, _)
ReduceLoop(mask, dsgn, extra, yy, el, shuffle, in_index, acc) ==
  IF in_index = num_subjects(dsgn) THEN acc
  ELSE IF mask[in_index + 1]
       THEN ReduceLoop(mask, dsgn, extra, yy, el, shuffle, in_index + 1,
              [acc EXCEPT !.Mfull_masked = Append(@, FullRow(dsgn, extra, in_index)),
                          !.y_masked = Append(@, Coeff(yy, el, in_index))])
       ELSE ReduceLoop(mask, dsgn, extra, yy, el, shuffle, in_index + 1,
              [acc EXCEPT !.perm_matrix_mask =
                 [perm_row \in 1 .. Len(shuffle) |->
                    @[perm_row] /\ shuffle[perm_row][in_index + 1] = 0]])

\* perm_matrix_masked.row (out_index++) = shuffling_matrix.row (in_index)
RECURSIVE PermRows(_, _, _)
PermRows(perm_matrix_mask, shuffle, in_index) ==
  IF in_index = Len(shuffle) THEN << >>
  ELSE (IF perm_matrix_mask[in_index + 1] THEN << shuffle[in_index + 1] >> ELSE << >>)
         \o PermRows(perm_matrix_mask, shuffle, in_index + 1)

\* the matrices of one element
Masked(mask, dsgn, extra, yy, el, shuffle) ==
  IF Cardinality({ s \in 1 .. Len(mask) : mask[s] }) = num_subjects(dsgn)
  THEN [Mfull_masked |-> [s \in 1 .. num_subjects(dsgn) |-> FullRow(dsgn, extra, s - 1)],
        perm_matrix_masked |-> shuffle,
        y_masked |-> yy[el + 1]]
  ELSE LET r == ReduceLoop(mask, dsgn, extra, yy, el, shuffle, 0,
                  [Mfull_masked |-> << >>, y_masked |-> << >>,
                   perm_matrix_mask |-> [s \in 1 .. num_subjects(dsgn) |-> TRUE]])
       IN [Mfull_masked |-> r.Mfull_masked,
           perm_matrix_masked |-> PermRows(r.perm_matrix_mask, shuffle, 0),
           y_masked |-> r.y_masked]

\* measurement of subject s (from 1) for element e (from 1)
Measured(e, s) == Rat(10 * e + s, 1)
Covariate(e, s) == Rat(100 + 10 * e + s, 1)

Cells == (1 .. GlmElements) \X (1 .. GlmSubjects)

\* measurements: all finite, or with one NaN
YSet ==
  { [e \in 1 .. GlmElements |-> [s \in 1 .. GlmSubjects |-> Measured(e, s)]] }
    \cup { [e \in 1 .. GlmElements |-> [s \in 1 .. GlmSubjects |->
              IF << e, s >> = cell THEN RatNaN ELSE Measured(e, s)]] : cell \in Cells }

\* no element-wise column, or one column that is finite or has one NaN
ImporterSet ==
  { << >> }
    \cup { << [e \in 1 .. GlmElements |-> [s \in 1 .. GlmSubjects |-> Covariate(e, s)]] >> }
    \cup { << [e \in 1 .. GlmElements |-> [s \in 1 .. GlmSubjects |->
                 IF << e, s >> = cell THEN RatNaN ELSE Covariate(e, s)]] >> : cell \in Cells }

\* shuffling matrices: permutations of the subjects, with or without a sign
\* flip of the first row
ShufflingSet ==
  { [r \in 1 .. GlmSubjects |-> [col \in 1 .. GlmSubjects |->
       IF p[r] = col THEN (IF r = 1 THEN sign ELSE 1) ELSE 0]] :
    p \in Permutations(1 .. GlmSubjects), sign \in { 1, -1 } }

\* nans_in_data and nans_in_columns as fixelcfestats passes them
NansInData == \E e \in 1 .. Len(y) : \E s \in 1 .. Len(y[e]) : ~RatIsFinite(y[e][s])
NansInColumns ==
  \E col \in 1 .. Len(importers) : \E e \in 1 .. Len(importers[col]) :
    \E s \in 1 .. Len(importers[col][e]) : ~RatIsFinite(importers[col][e][s])

\* a coefficient of the output: its sign and its square, so that the square
\* root of a ratio is exact
Value(neg, sq) == [neg |-> neg, sq |-> sq]
Zero == Value(FALSE, RatZero)

\* what a coefficient that was never assigned can hold
Indeterminate == { Zero, Value(FALSE, RatNaN) }

\* the hypotheses c: a t-test and an F-test of rank 1
hypotheses == << [is_F |-> FALSE, rank |-> 1], [is_F |-> TRUE, rank |-> 1] >>

\* ranks of X (one column) and of Z (the other columns) of a design in
\* general position with the given number of rows
rank_x(rows) == IF rows < 1 THEN rows ELSE 1
rank_z(rows, factors) == IF rows < factors - 1 THEN rows ELSE factors - 1

\* results of the regression of one element: betahat of the column of interest
\* and (Rm*Sy).squaredNorm(); both are 0 when no subject is left
Regressions(finite_count) ==
  IF finite_count = 0 THEN { [betahat |-> 0, squaredNorm |-> RatZero] }
  ELSE [betahat : { -1, 0, 1 }, squaredNorm : { RatZero, RatOne }]

\* F = (betahat' * (X^-1 * X) * betahat / rank) / (squaredNorm / dof)
FRatio(bh, rank, squaredNorm, dof) ==
  RatDiv(RatDiv(Rat(bh * bh, 1), Rat(rank, 1)), RatDiv(squaredNorm, Rat(dof, 1)))

\* the value stored for one F ratio
OutputValue(Fv, is_F, bh) ==
  IF ~RatIsFinite(Fv) THEN Zero
  ELSE IF is_F THEN Value(FALSE, RatMul(Fv, Fv))
  ELSE Value(~(bh > 0), Fv)

\* for (iF = 0; iF != F.size(); ++iF) output (iF, ic) = ...; every F has size 1
OutputLoop(out, Fs, bhs, iF) ==
  Put(out, iF, [ic \in 1 .. Len(hypotheses) |->
                  OutputValue(Fs[ic], hypotheses[ic].is_F, bhs[ic])])

InitVariable ==
  /\ pc = "called"
  /\ connectivity_matrix = << >>
  /\ streamlines = EmptyBag
  /\ connectivity_threshold = RatZero
  /\ data = << >>
  /\ file = << >>
  /\ loaded = [ok |-> TRUE, matrix |-> << >>]
  /\ GenIdle
  /\ index_remapper = [default |-> TRUE, external2internal |-> << >>]
  /\ StatsIdle
  /\ ParIdle
  /\ SmoothIdle
  /\ F = << >>
  /\ betahat = << >>
  /\ contrast = << >>
  /\ design = << [s \in 1 .. GlmSubjects |-> RatOne] >>
  /\ partition = [X |-> << >>, Z |-> << >>]
  /\ y \in YSet
  /\ importers \in ImporterSet
  /\ shuffling_matrix \in ShufflingSet
  /\ element = 0
  /\ element_mask = << >>
  /\ Mfull_masked = << >>
  /\ y_masked = << >>
  /\ perm_matrix_masked = << >>

\* output.resize (num_elements(), num_outputs()) of a matrix of another size:
\* the coefficients are not initialised
VariableResize ==
  /\ pc = "called"
  /\ \E v \in Indeterminate :
       output' = [e \in 1 .. Len(y) |-> [ic \in 1 .. Len(hypotheses) |-> v]]
  /\ pc' = "evaluating"
  /\ UNCHANGED << connectivity_matrix, seqVars, genVars, parVars, index_remapper, statsVars,
                  kernel, fixel_positions, smoothing_matrix, processed, out_of_range,
                  input, glmVars >>

\* one iteration of the loop over the elements
VariableElement ==
  /\ pc = "evaluating"
  /\ element # Len(y)
  /\ IF Len(y) > num_subjects(design) \/ element >= Len(y[1])
     THEN /\ pc' = "undefined"
          /\ UNCHANGED << element, element_mask, Mfull_masked, y_masked,
                          perm_matrix_masked, F, betahat, output >>
     ELSE LET extra_data == ExtraData(importers, element)
              mask == ElementMask(y, extra_data, element, NansInData, NansInColumns,
                                  num_subjects(design))
              r == Masked(mask, design, extra_data, y, element, shuffling_matrix)
              finite_count == Cardinality({ s \in 1 .. Len(mask) : mask[s] })
              num_factors == Len(design) + Len(importers)
              ranks == rank_x(finite_count) + rank_z(finite_count, num_factors)
          IN /\ element_mask' = mask
             /\ Mfull_masked' = r.Mfull_masked
             /\ y_masked' = r.y_masked
             /\ perm_matrix_masked' = r.perm_matrix_masked
             /\ element' = element + 1
             /\ IF finite_count < ranks
                THEN /\ pc' = "wrapped"
                     /\ UNCHANGED << F, betahat, output >>
                ELSE \E reg \in Regressions(finite_count) :
                       /\ betahat' = [ic \in 1 .. Len(hypotheses) |-> reg.betahat]
                       /\ F' = [ic \in 1 .. Len(hypotheses) |->
                                  FRatio(reg.betahat, hypotheses[ic].rank,
                                         reg.squaredNorm, finite_count - ranks)]
                       /\ output' = OutputLoop(output, F', betahat', 0)
                       /\ pc' = pc
  /\ UNCHANGED << connectivity_matrix, seqVars, genVars, parVars, index_remapper, statsVars,
                  kernel, fixel_positions, smoothing_matrix, processed, out_of_range,
                  input, contrast, design, partition, y, importers, shuffling_matrix >>

\* the loop over the elements has ended
VariableReturn ==
  /\ pc = "evaluating"
  /\ element = Len(y)
  /\ pc' = "evaluated"
  /\ UNCHANGED << connectivity_matrix, seqVars, genVars, cmdVars >>

NextVariable ==
  \/ VariableResize
  \/ VariableElement
  \/ VariableReturn

SpecVariable == InitVariable /\ [][NextVariable]_vars

(***************************************************************************)
(* C20: for every element n, TestVariable takes subject s out exactly when *)
(* the measurement of n for s, or an element-wise covariate of s at n, is  *)
(* not finite; the masked design and the masked measurements hold the      *)
(* subjects that stay, in their order, with the values of element n.       *)
(***************************************************************************)
Excluded(n, s) ==
  \/ ~RatIsFinite(y[n][s])
  \/ \E col \in 1 .. Len(importers) : ~RatIsFinite(importers[col][n][s])

Retained(n) == SortedSeq({ s \in 1 .. GlmSubjects : ~Excluded(n, s) })

C20_ExclusionMask ==
  (pc \in { "evaluating", "evaluated" } /\ element > 0) =>
    LET n == element IN
    /\ \A s \in 1 .. GlmSubjects : element_mask[s] <=> ~Excluded(n, s)
    /\ y_masked = [k \in 1 .. Len(Retained(n)) |-> y[n][Retained(n)[k]]]
    /\ Mfull_masked =
         [k \in 1 .. Len(Retained(n)) |->
            [col \in 1 .. Len(design) + Len(importers) |->
               IF col <= Len(design) THEN design[col][Retained(n)[k]]
               ELSE importers[col - Len(design)][n][Retained(n)[k]]]]

(***************************************************************************)
(* C19: for every element and hypothesis the value in the output of the    *)
(* GLM test is 0 when the F ratio is not finite, F for an F-test and       *)
(* sign (betahat) * sqrt (F) for a t-test; no coefficient of the returned  *)
(* output is non-finite.                                                   *)
(***************************************************************************)
\* equality of two coefficients; 0 and -0 are equal
SameValue(a, b) == a.sq = b.sq /\ (a.neg = b.neg \/ a.sq = RatZero)

Statistic(Fv, is_F, bh) ==
  IF ~RatIsFinite(Fv) THEN Zero
  ELSE IF is_F THEN Value(FALSE, RatMul(Fv, Fv))
  ELSE Value(bh < 0, Fv)

C19_OutputFinite ==
  /\ (pc \in { "evaluating", "evaluated" } /\ element > 0) =>
       \A ic \in 1 .. Len(hypotheses) :
         SameValue(output[element][ic],
                   Statistic(F[ic], hypotheses[ic].is_F, betahat[ic]))
  /\ pc = "evaluated" =>
       \A n \in 1 .. Len(output) : \A ic \in 1 .. Len(output[n]) :
         RatIsFinite(output[n][ic].sq)

(***************************************************************************)
(* C21: when TestVariable takes subjects out for an element, the reduced   *)
(* shuffling matrix is the shuffling matrix without the rows that have a   *)
(* non-zero entry in the column of an excluded subject and without the     *)
(* columns of the excluded subjects: it is square, one row and one column  *)
(* per retained subject, and a signed permutation of them.                 *)
(***************************************************************************)
RetainedSubjects == { s \in 1 .. Len(element_mask) : element_mask[s] }

RetainedRows ==
  { r \in 1 .. Len(shuffling_matrix) :
      \A s \in 1 .. Len(element_mask) : ~element_mask[s] => shuffling_matrix[r][s] = 0 }

\* every row and every column of m has exactly one non-zero entry, 1 or -1
SignedPermutation(m) ==
  /\ \A r \in 1 .. Len(m) :
       /\ Len(m[r]) = Len(m)
       /\ Cardinality({ col \in 1 .. Len(m) : m[r][col] # 0 }) = 1
       /\ \A col \in 1 .. Len(m) : m[r][col] \in { -1, 0, 1 }
  /\ \A col \in 1 .. Len(m) : Cardinality({ r \in 1 .. Len(m) : m[r][col] # 0 }) = 1

C21_ReducedShuffle ==
  (pc \in { "evaluating", "evaluated", "wrapped" } /\ element > 0) =>
    /\ perm_matrix_masked =
         [k \in 1 .. Cardinality(RetainedRows) |->
            [j \in 1 .. Cardinality(RetainedSubjects) |->
               shuffling_matrix[SortedSeq(RetainedRows)[k]][SortedSeq(RetainedSubjects)[j]]]]
    /\ Len(perm_matrix_masked) = Len(y_masked)
    /\ SignedPermutation(perm_matrix_masked)

(***************************************************************************)
(* C22: a run of fixelcfestats goes through its phases in the order        *)
(* empirical precompute (exactly when the non-stationarity adjustment is   *)
(* requested), default precompute, the shuffles, finalize (FWE p-values),  *)
(* done.  The default precompute comes before every shuffle, finalize      *)
(* starts after all the shuffles, and a run given -notest ends after the   *)
(* default precompute, without shuffles and without finalize; every other  *)
(* run that is done has gone through the shuffles and finalize.            *)
(***************************************************************************)
Phases == [k \in 1 .. Len(calls) |-> calls[k].phase]

\* the phases of a whole run, but for the shuffles
Precomputes ==
  (IF options.nonstationarity THEN << "empirical" >> ELSE << >>) \o << "default" >>

PhaseOrder ==
  \E n \in 0 .. NumPerms :
    \E k \in 0 .. Len(Precomputes) :
      /\ n > 0 => k = Len(Precomputes)
      /\ Phases = SubSeq(Precomputes, 1, k) \o [i \in 1 .. n |-> "shuffle"]

C22_PhaseOrder ==
  /\ [](PhaseOrder)
  /\ [](pc \in { "empirical", "shuffling", "finalize", "done" } =>
          ("empirical" \in ListSet(Phases) <=> options.nonstationarity))
  /\ [](pc \in { "shuffling", "finalize", "done" } => "default" \in ListSet(Phases))
  /\ [](pc = "finalize" => Shuffles(calls) = NumPerms)
  /\ [][pc' = "finalize" => pc = "shuffling"]_vars
  /\ [][pc' = "done" /\ pc # "done" =>
          IF options.notest
          THEN pc = "empirical" /\ Shuffles(calls') = 0
          ELSE pc = "finalize" /\ Shuffles(calls') = NumPerms]_vars

C22_Witness ==
  /\ pc = "done"
  /\ Phases = << "empirical", "default" >> \o [i \in 1 .. NumPerms |-> "shuffle"]

\* as stated: every run that is done has gone through the shuffles and finalize
C22_Original == [][pc' = "done" /\ pc # "done" =>
                     pc = "finalize" /\ Shuffles(calls) = NumPerms]_vars

(***************************************************************************)
(* Stats::PermTest::run_permutations, after the description of the         *)
(* permutation engine: the shuffles are generated from the seed before     *)
(* they are dispatched; every worker thread takes the next shuffle,        *)
(* evaluates the GLM test and the enhancement on it with its own scratch   *)
(* data, and reduces the result into the shared null distribution and      *)
(* counts while it holds the lock.                                         *)
(***************************************************************************)
PermNodes == 2
PermShuffles == 3

\* variables of the commands and of the GLM library
restVars == << index_remapper, statsVars, smoothVars, glmVars >>
RestIdle ==
  /\ index_remapper = [default |-> TRUE, external2internal |-> << >>]
  /\ StatsIdle
  /\ SmoothIdle
  /\ GlmIdle

Seeds == { 1, 2 }

\* shuffle number k (from 0) of the seed, as the number of its matrix
ShuffleOf(sd, k) == (3 * sd + 5 * k) % 4

\* enhanced statistic of a node under a shuffle; shuffle 0 is the identity
Enhanced(shuffle, node) == (shuffle * (node + 1) + node) % 3

MaxOf(S) == CHOOSE x \in S : \A other \in S : other <= x

ReduceOverwrite(nd, index, stat) ==
  [dist  |-> Put(nd.dist, index, MaxOf({ stat[n] : n \in 1 .. PermNodes })),
   count |-> [n \in 1 .. PermNodes |-> IF stat[n] >= Enhanced(0, n - 1) THEN 1 ELSE 0]]

\* reduction of the result of one shuffle: its maximum over the nodes goes to
\* its entry of the null distribution; the count of a node grows when the
\* shuffled statistic is not below the default one
Reduce(nd, index, stat) ==
  [dist  |-> Put(nd.dist, index, MaxOf({ stat[n] : n \in 1 .. PermNodes })),
   count |-> [n \in 1 .. PermNodes |->
                nd.count[n] + (IF stat[n] >= Enhanced(0, n - 1) THEN 1 ELSE 0)]]

InitPermute ==
  /\ pc = "shuffling"
  /\ connectivity_matrix = << >>
  /\ streamlines = EmptyBag
  /\ connectivity_threshold = RatZero
  /\ data = << >>
  /\ file = << >>
  /\ loaded = [ok |-> TRUE, matrix |-> << >>]
  /\ tracks = << >>
  /\ worker = << >>
  /\ queue = << >>
  /\ \E threads \in 1 .. NumWorkers : sink = [t \in 1 .. threads |-> Idle]
  /\ arrived = << >>
  /\ RestIdle
  /\ source_counter = 0
  /\ fixel_mask_image = << >>
  /\ tck = << >>
  /\ seed \in Seeds
  /\ null_distribution = [dist  |-> [k \in 1 .. PermShuffles |-> -1],
                          count |-> [n \in 1 .. PermNodes |-> 0]]

\* the next shuffle is dispatched
PermDispatch ==
  /\ pc = "shuffling"
  /\ source_counter < PermShuffles
  /\ queue' = Append(queue, [index |-> source_counter,
                             shuffle |-> ShuffleOf(seed, source_counter)])
  /\ source_counter' = source_counter + 1
  /\ UNCHANGED << pc, connectivity_matrix, seqVars, tracks, worker, sink, arrived,
                  restVars, fixel_mask_image, tck, seed, null_distribution >>

\* thread t takes a shuffle and evaluates it
PermEvaluate(t) ==
  /\ pc = "shuffling"
  /\ sink[t] = Idle
  /\ Len(queue) > 0
  /\ sink' = [sink EXCEPT ![t] =
                [index |-> Head(queue).index,
                 stat  |-> [n \in 1 .. PermNodes |-> Enhanced(Head(queue).shuffle, n - 1)]]]
  /\ queue' = Tail(queue)
  /\ UNCHANGED << pc, connectivity_matrix, seqVars, tracks, worker, arrived,
                  restVars, parVars >>

\* thread t reduces its result
PermReduce(t) ==
  /\ pc = "shuffling"
  /\ sink[t] # Idle
  /\ null_distribution' = Reduce(null_distribution, sink[t].index, sink[t].stat)
  /\ arrived' = Append(arrived, sink[t].index)
  /\ sink' = [sink EXCEPT ![t] = Idle]
  /\ UNCHANGED << pc, connectivity_matrix, seqVars, tracks, worker, queue,
                  restVars, source_counter, fixel_mask_image, tck, seed >>

\* every shuffle has been reduced: run_permutations returns
PermReturn ==
  /\ pc = "shuffling"
  /\ source_counter = PermShuffles
  /\ queue = << >>
  /\ \A t \in DOMAIN sink : sink[t] = Idle
  /\ pc' = "done"
  /\ UNCHANGED << connectivity_matrix, seqVars, genVars, cmdVars >>

NextPermute ==
  \/ PermDispatch
  \/ \E t \in DOMAIN sink : PermEvaluate(t)
  \/ \E t \in DOMAIN sink : PermReduce(t)
  \/ PermReturn

SpecPermute == InitPermute /\ [][NextPermute]_vars

(***************************************************************************)
(* C23: the shuffles that are evaluated are the K shuffles of the seed;    *)
(* the null distribution and the counts behind the p-values at the end of  *)
(* the run depend on the seed only, not on the number of threads nor on    *)
(* the order in which the threads evaluate and reduce.                     *)
(***************************************************************************)
NullOfSeed(sd) ==
  [dist  |-> [k \in 1 .. PermShuffles |->
                MaxOf({ Enhanced(ShuffleOf(sd, k - 1), n - 1) : n \in 1 .. PermNodes })],
   count |-> [n \in 1 .. PermNodes |->
                Cardinality({ k \in 1 .. PermShuffles :
                    Enhanced(ShuffleOf(sd, k - 1), n - 1) >= Enhanced(0, n - 1) })]]

C23_OrderIndependent ==
  /\ \A k \in 1 .. Len(queue) : queue[k].shuffle = ShuffleOf(seed, queue[k].index)
  /\ pc = "done" => null_distribution = NullOfSeed(seed)

\* two threads, and the shuffles were not reduced in the order of dispatch
C23_Witness ==
  /\ pc = "done"
  /\ Len(sink) = NumWorkers
  /\ \E k \in 1 .. Len(arrived) - 1 : arrived[k] > arrived[k + 1]

(***************************************************************************)
(* generate() with its TrackProcessor.  A streamline is mapped to the      *)
(* voxels it crosses; in every voxel the processor looks for the fixel     *)
(* whose direction is closest to the tangent of the streamline.  The index *)
(* image gives the number of fixels of a voxel and the index of its first  *)
(* fixel.                                                                  *)
(***************************************************************************)
TrackFixels == 3
TrackStreamlines == 2

\* the index image: one voxel with the first fixel, one with the others
Voxels == << [num_fixels |-> 1, first_index |-> 0],
             [num_fixels |-> TrackFixels - 1, first_index |-> 1] >>

\* std::cos (angular_threshold * (Math::pi/180.0)) for a threshold of 60 degrees
angular_threshold_dp == Rat(1, 2)

\* abs (dir.dot (fixel direction)): one value below the threshold, one above
DotProducts == { Rat(1, 4), RatOne }

\* a > b
RatGT(a, b) == RatGE(a, b) /\ a # b

FixelLoopNoMask(dp, mask, j, last_index, closest_fixel_index, largest_dp) ==
  LET all == j .. last_index - 1
      best == CHOOSE k \in all :
                \A other \in all :
                  \/ RatGT(dp[k + 1], dp[other + 1])
                  \/ (dp[k + 1] = dp[other + 1] /\ k <= other)
  IN IF all # { } /\ RatGT(dp[best + 1], largest_dp)
     THEN [closest_fixel_index |-> best, largest_dp |-> dp[best + 1]]
     ELSE [closest_fixel_index |-> closest_fixel_index, largest_dp |-> largest_dp]

\* for (j = first_index; j < last_index; ++j): dp holds the dot product of
\* every fixel, by fixel index
RECURSIVE FixelLoop(_, _, _, _, _, _)
FixelLoop(dp, mask, j, last_index, closest_fixel_index, largest_dp) ==
  IF ~(j < last_index)
  THEN [closest_fixel_index |-> closest_fixel_index, largest_dp |-> largest_dp]
  ELSE IF RatGT(dp[j + 1], largest_dp)
       THEN FixelLoop(dp, mask, j + 1, last_index,
                      IF mask[j + 1] THEN j ELSE closest_fixel_index, dp[j + 1])
       ELSE FixelLoop(dp, mask, j + 1, last_index, closest_fixel_index, largest_dp)

\* body of the loop over the voxels of the streamline: what is pushed to out
VoxelOut(voxel, dp, mask) ==
  IF voxel.num_fixels > 0
  THEN LET r == FixelLoop(dp, mask, voxel.first_index,
                          voxel.first_index + voxel.num_fixels, voxel.num_fixels, RatZero)
       IN IF r.closest_fixel_index # voxel.num_fixels
             /\ RatGT(r.largest_dp, angular_threshold_dp)
          THEN { r.closest_fixel_index }
          ELSE { }
  ELSE { }

\* TrackProcessor::operator(): in is the set of voxels the streamline crosses,
\* out the sorted list of the fixels
TrackProcessor(in, dp, mask) ==
  SortedSeq(UNION { VoxelOut(Voxels[v], dp, mask) : v \in in })

\* fixels of a voxel, from 0
FixelsOf(voxel) == voxel.first_index .. voxel.first_index + voxel.num_fixels - 1

\* a streamline: the voxels it crosses and its dot product with every fixel
\* (the smallest one for the fixels of the voxels it does not cross)
Streamlines ==
  { s \in [in : SUBSET (1 .. Len(Voxels)), dp : [1 .. TrackFixels -> DotProducts]] :
      \A f \in 1 .. TrackFixels :
        (\A v \in s.in : f - 1 \notin FixelsOf(Voxels[v])) => s.dp[f] = Rat(1, 4) }

InitTrack ==
  /\ pc = "running"
  /\ connectivity_matrix = InitMatrixOf(TrackFixels)
  /\ streamlines = EmptyBag
  /\ connectivity_threshold = RatZero
  /\ data = << >>
  /\ file = << >>
  /\ loaded = [ok |-> TRUE, matrix |-> << >>]
  /\ GenIdle
  /\ RestIdle
  /\ source_counter = 0
  /\ fixel_mask_image \in [1 .. TrackFixels -> BOOLEAN]
  /\ tck = << >>
  /\ seed = 0
  /\ null_distribution = << >>

\* one streamline goes through the track processor and the sink
TrackStreamline(s) ==
  /\ pc = "running"
  /\ BagCardinality(streamlines) < TrackStreamlines
  /\ tck' = << s >>
  /\ tracks' = << TrackProcessor(s.in, s.dp, fixel_mask_image) >>
  /\ streamlines' =
       streamlines (+) SetToBag({ TrackProcessor(s.in, s.dp, fixel_mask_image) })
  /\ connectivity_matrix' =
       GenerateSink(connectivity_matrix, TrackProcessor(s.in, s.dp, fixel_mask_image))
  /\ UNCHANGED << pc, connectivity_threshold, data, file, loaded, worker, queue, sink,
                  arrived, restVars, source_counter, fixel_mask_image, seed,
                  null_distribution >>

\* the track file is exhausted: generate() returns connectivity_matrix
TrackReturn ==
  /\ pc = "running"
  /\ pc' = "returned"
  /\ UNCHANGED << connectivity_matrix, seqVars, genVars, cmdVars >>

NextTrack ==
  \/ \E s \in Streamlines : TrackStreamline(s)
  \/ TrackReturn

SpecTrack == InitTrack /\ [][NextTrack]_vars

(***************************************************************************)
(* C24: with a fixel mask, a fixel outside the mask has no entry and a     *)
(* track count of 0 in the matrix generate() builds, and no fixel inside   *)
(* the mask has a fixel outside the mask among its entries.                *)
(***************************************************************************)
C24_MaskedOut ==
  \A f \in 1 .. Len(connectivity_matrix) :
    IF fixel_mask_image[f]
    THEN \A k \in 1 .. Len(connectivity_matrix[f].elems) :
           fixel_mask_image[connectivity_matrix[f].elems[k].index + 1]
    ELSE connectivity_matrix[f] = InitFixelEmpty

\* a streamline crossed a voxel whose best fixel is outside the mask, and the
\* matrix is not empty
C24_Witness ==
  /\ pc = "returned"
  /\ \E f \in 1 .. TrackFixels : ~fixel_mask_image[f]
  /\ \E k \in 1 .. Len(tck) : \E f \in 1 .. TrackFixels :
       /\ ~fixel_mask_image[f]
       /\ tck[k].dp[f] = RatOne
       /\ \E v \in tck[k].in : f - 1 \in FixelsOf(Voxels[v])
  /\ \E f \in 1 .. TrackFixels : Len(connectivity_matrix[f].elems) > 1

(***************************************************************************)
(* C29: for every voxel a streamline crosses, fixel j of the voxel is in   *)
(* the list of the streamline exactly when j is the fixel of the voxel     *)
(* with the largest dot product, j is inside the mask and the dot product  *)
(* is above the threshold, whatever the index of j is.                     *)
(***************************************************************************)
\* the fixel of the voxel with the largest dot product (the first of them)
BestAligned(voxel, dp) ==
  CHOOSE j \in FixelsOf(voxel) :
    \A other \in FixelsOf(voxel) :
      \/ RatGT(dp[j + 1], dp[other + 1])
      \/ (dp[j + 1] = dp[other + 1] /\ j <= other)

C29_BestAlignedOnly ==
  \A k \in 1 .. Len(tck) :
    \A v \in tck[k].in :
      \A j \in FixelsOf(Voxels[v]) :
        j \in ListSet(tracks[k]) <=>
          /\ j = BestAligned(Voxels[v], tck[k].dp)
          /\ fixel_mask_image[j + 1]
          /\ RatGT(tck[k].dp[j + 1], angular_threshold_dp)

(***************************************************************************)
(* normalise() on its threads: Thread::run_queue (source, index_type(),    *)
(* Thread::multi (Sink)).  The source hands out the fixel indices one by   *)
(* one; every sink thread takes an index, fills data[index] from           *)
(* initial_matrix[index] and then swaps initial_matrix[index] with an      *)
(* empty InitFixel.                                                        *)
(***************************************************************************)
NormFixels == 2

\* initial matrices: what generate() builds from two streamlines
InitialMatrices ==
  { GenerateSink(GenerateSink(InitMatrixOf(NormFixels), a), b) :
      a \in FixelListsOf(NormFixels), b \in FixelListsOf(NormFixels) }

InitNormalise ==
  /\ pc = "running"
  /\ connectivity_matrix \in InitialMatrices
  /\ streamlines = EmptyBag
  /\ connectivity_threshold \in Thresholds
  /\ data = [f \in 1 .. NormFixels |-> NormFixelEmpty]
  /\ file = << >>
  /\ loaded = [ok |-> TRUE, matrix |-> << >>]
  /\ tracks = << >>
  /\ worker = << >>
  /\ queue = << >>
  /\ sink = [t \in 1 .. NumWorkers |-> Idle]
  /\ arrived = << >>
  /\ RestIdle
  /\ ParIdle

\* Source::operator(): fixel_index = counter++ while counter < num_fixels
SourceNext ==
  /\ pc = "running"
  /\ source_counter < Len(connectivity_matrix)
  /\ queue' = Append(queue, source_counter)
  /\ source_counter' = source_counter + 1
  /\ UNCHANGED << pc, connectivity_matrix, seqVars, tracks, worker, sink, arrived,
                  restVars, fixel_mask_image, tck, seed, null_distribution >>

\* sink thread t reads the next index and enters the Sink functor
NormSinkTake(t) ==
  /\ pc = "running"
  /\ sink[t] = Idle
  /\ Len(queue) > 0
  /\ sink' = [sink EXCEPT ![t] = [index |-> Head(queue), stored |-> FALSE]]
  /\ queue' = Tail(queue)
  /\ UNCHANGED << pc, connectivity_matrix, seqVars, tracks, worker, arrived,
                  restVars, parVars >>

\* the loop over initial_matrix[index] and data[index].normalise()
NormSinkStore(t) ==
  /\ pc = "running"
  /\ sink[t] # Idle
  /\ ~sink[t].stored
  /\ data' = Put(data, sink[t].index,
                 NormaliseSink(At(connectivity_matrix, sink[t].index),
                               connectivity_threshold))
  /\ sink' = [sink EXCEPT ![t].stored = TRUE]
  /\ UNCHANGED << pc, connectivity_matrix, streamlines, connectivity_threshold, file,
                  loaded, tracks, worker, queue, arrived, restVars, parVars >>

SwapOther(matrix, index) == Put(matrix, (index + 1) % Len(matrix), InitFixelEmpty)

\* InitFixel().swap (initial_matrix[index])
Swap(matrix, index) == Put(matrix, index, InitFixelEmpty)

\* the row of the initial matrix is released and the functor returns true
NormSinkSwap(t) ==
  /\ pc = "running"
  /\ sink[t] # Idle
  /\ sink[t].stored
  /\ connectivity_matrix' = Swap(connectivity_matrix, sink[t].index)
  /\ arrived' = Append(arrived, sink[t].index)
  /\ sink' = [sink EXCEPT ![t] = Idle]
  /\ UNCHANGED << pc, seqVars, tracks, worker, queue, restVars, parVars >>

\* every thread has finished: init_matrix_type().swap (initial_matrix), and
\* normalise() returns data
NormaliseReturn ==
  /\ pc = "running"
  /\ source_counter = Len(connectivity_matrix)
  /\ queue = << >>
  /\ \A t \in DOMAIN sink : sink[t] = Idle
  /\ connectivity_matrix' = << >>
  /\ pc' = "returned"
  /\ UNCHANGED << seqVars, genVars, cmdVars >>

NextNormalise ==
  \/ SourceNext
  \/ \E t \in DOMAIN sink : NormSinkTake(t)
  \/ \E t \in DOMAIN sink : NormSinkStore(t)
  \/ \E t \in DOMAIN sink : NormSinkSwap(t)
  \/ NormaliseReturn

SpecNormalise == InitNormalise /\ [][NextNormalise]_vars

(***************************************************************************)
(* C25: normalise() works on every fixel index exactly once; the row of a  *)
(* fixel in the initial matrix is read before it is released and released  *)
(* right after data[index] was written, by the thread that wrote it; no    *)
(* thread changes the rows of another index; at the return the initial     *)
(* matrix is empty and data has one row per fixel.                         *)
(***************************************************************************)
\* indices in the hands of the sink threads
InSink == { t \in DOMAIN sink : sink[t] # Idle }

\* every index the source has handed out so far, in order of its position
HandedOut ==
  arrived \o [k \in 1 .. Cardinality(InSink) |-> sink[SortedSeq(InSink)[k]].index] \o queue

C25_EachIndexOnce ==
  /\ [](pc = "running" =>
          /\ Len(HandedOut) = source_counter
          /\ ListSet(HandedOut) = 0 .. source_counter - 1)
  /\ [](pc = "running" => \A t \in InSink : sink[t].index \notin ListSet(arrived))
  /\ [][\A f \in 1 .. NormFixels :
          (pc = "running" /\ pc' = "running" /\ data'[f] # data[f]) =>
            \E t \in InSink : /\ sink[t].index = f - 1
                              /\ ~sink[t].stored
                              /\ sink'[t].stored
                              /\ f - 1 \notin ListSet(arrived)
                              /\ connectivity_matrix' = connectivity_matrix]_vars
  /\ [][\A f \in 1 .. NormFixels :
          (pc = "running" /\ pc' = "running"
             /\ connectivity_matrix'[f] # connectivity_matrix[f]) =>
            \E t \in InSink : /\ sink[t].index = f - 1
                              /\ sink[t].stored
                              /\ sink'[t] = Idle
                              /\ connectivity_matrix'[f] = InitFixelEmpty
                              /\ data' = data]_vars
  /\ [][\A t \in InSink : sink[t].stored =>
          (sink'[t] = sink[t] \/ (sink'[t] = Idle /\ arrived' = Append(arrived, sink[t].index)))]_vars
  /\ [](pc = "returned" =>
          /\ connectivity_matrix = << >>
          /\ Len(data) = NormFixels
          /\ Len(arrived) = NormFixels
          /\ ListSet(arrived) = 0 .. NormFixels - 1)

\* two threads were in the Sink at once, and the rows were released in
\* another order than the source handed them out
C25_Witness ==
  /\ pc = "returned"
  /\ \E k \in 1 .. Len(arrived) - 1 : arrived[k] > arrived[k + 1]
  /\ \E f \in 1 .. Len(data) : Len(data[f].elems) > 0

(***************************************************************************)
(* C26: TestVariable::operator() stores the statistics of element n in row *)
(* n of the output, one column per hypothesis: the iteration for element n *)
(* assigns row n and leaves the rows of the other elements alone.          *)
(***************************************************************************)
C26_OwnRow ==
  [][(pc = "evaluating" /\ pc' = "evaluating" /\ element' = element + 1) =>
       /\ Len(output') = Len(y)
       /\ \A ic \in 1 .. Len(hypotheses) :
            output'[element'][ic] =
              OutputValue(F'[ic], hypotheses[ic].is_F, betahat'[ic])
       /\ \A n \in 1 .. Len(output) : n # element' => output'[n] = output[n]]_vars

(***************************************************************************)
(* all_stats() with element-wise design columns: Thread::run_queue         *)
(* (source, Thread::batch (size_t()), Thread::multi (functor)).  An item   *)
(* goes to the queue when the source returns true; when it returns false   *)
(* the queue is closed and the item of that call is not used, as the       *)
(* sources of normalise() and of the Smooth filter have it.                *)
(***************************************************************************)
AllStatsElements == 4

InitAllStats ==
  /\ pc = "running"
  /\ connectivity_matrix = << >>
  /\ streamlines = EmptyBag
  /\ connectivity_threshold = RatZero
  /\ data = << >>
  /\ file = << >>
  /\ loaded = [ok |-> TRUE, matrix |-> << >>]
  /\ tracks = << >>
  /\ worker = << >>
  /\ queue = << >>
  /\ sink = [t \in 1 .. NumWorkers |-> Idle]
  /\ arrived = << >>
  /\ index_remapper = [default |-> TRUE, external2internal |-> << >>]
  /\ StatsIdle
  /\ SmoothIdle
  /\ contrast = << >>
  /\ design = << [s \in 1 .. GlmSubjects |-> RatOne] >>
  /\ partition = [X |-> << >>, Z |-> << >>]
  /\ \E n \in 1 .. AllStatsElements :
       /\ y = [e \in 1 .. n |-> [s \in 1 .. GlmSubjects |-> Measured(e, s)]]
       /\ importers = << [e \in 1 .. n |-> [s \in 1 .. GlmSubjects |-> Covariate(e, s)]] >>
  /\ shuffling_matrix = << >>
  /\ element = 0
  /\ element_mask = << >>
  /\ Mfull_masked = << >>
  /\ y_masked = << >>
  /\ perm_matrix_masked = << >>
  /\ F = << >>
  /\ betahat = << >>
  /\ ParIdle

\* Source::operator(): what it returns once counter has been incremented
SourceReturns(cnt, num_elements) == ~(cnt >= num_elements)

\* one call of the source: element_index = counter++
AllStatsSource ==
  /\ pc = "running"
  /\ source_counter' = source_counter + 1
  /\ IF SourceReturns(source_counter', Len(y))
     THEN /\ queue' = Append(queue, source_counter)
          /\ pc' = pc
     ELSE /\ queue' = queue
          /\ pc' = "closed"
  /\ UNCHANGED << connectivity_matrix, seqVars, tracks, worker, sink, arrived,
                  restVars, fixel_mask_image, tck, seed, null_distribution >>

\* thread t reads the next index and enters Functor::operator()
FunctorTake(t) ==
  /\ pc \in { "running", "closed" }
  /\ sink[t] = Idle
  /\ Len(queue) > 0
  /\ sink' = [sink EXCEPT ![t] = [index |-> Head(queue), stored |-> FALSE]]
  /\ queue' = Tail(queue)
  /\ UNCHANGED << pc, connectivity_matrix, seqVars, tracks, worker, arrived,
                  restVars, parVars >>

\* the results of the element go to the columns element_index of the outputs
FunctorStore(t) ==
  /\ pc \in { "running", "closed" }
  /\ sink[t] # Idle
  /\ arrived' = Append(arrived, sink[t].index)
  /\ sink' = [sink EXCEPT ![t] = Idle]
  /\ UNCHANGED << pc, connectivity_matrix, seqVars, tracks, worker, queue,
                  restVars, parVars >>

\* the queue is closed and empty and every thread has finished
AllStatsReturn ==
  /\ pc = "closed"
  /\ queue = << >>
  /\ \A t \in DOMAIN sink : sink[t] = Idle
  /\ pc' = "returned"
  /\ UNCHANGED << connectivity_matrix, seqVars, genVars, cmdVars >>

NextAllStats ==
  \/ AllStatsSource
  \/ \E t \in DOMAIN sink : FunctorTake(t)
  \/ \E t \in DOMAIN sink : FunctorStore(t)
  \/ AllStatsReturn

SpecAllStats == InitAllStats /\ [][NextAllStats]_vars

(***************************************************************************)
(* C27: with element-wise design columns all_stats() stores the results of *)
(* every element index 0 .. num_elements - 1 exactly once, the last one    *)
(* included, also when there is one element only.                          *)
(***************************************************************************)
C27_EveryElementOnce ==
  pc = "returned" =>
    /\ Len(arrived) = Len(y)
    /\ ListSet(arrived) = 0 .. Len(y) - 1


(***************************************************************************)
(* C28: after a load through an index remapper built from a mask, the row  *)
(* at position i, for i below the number of fixels in the mask, is the     *)
(* adjacency of the masked fixel whose internal index is i: the line of    *)
(* that fixel in the file, its ids turned into internal indices and the    *)
(* neighbours outside the mask dropped.                                    *)
(***************************************************************************)
\* the fixel of the template that has the internal index i
ExternalOf(remapper, i) ==
  CHOOSE e \in 0 .. num_external(remapper) - 1 : remapper.external2internal[e + 1] = i

\* every id of the file is a fixel of the template
IdsInTemplate(text) ==
  \A k \in 1 .. Len(text) : text[k] # "9"

C28_RowOfInternalIndex ==
  ( /\ pc = "loaded"
    /\ ~index_remapper.default
    /\ loaded.ok
    /\ Len(FileLines(file)) = num_external(index_remapper)
    /\ IdsInTemplate(file) ) =>
    \A i \in 0 .. num_internal(index_remapper) - 1 :
      At(loaded.matrix, i) =
        ParseLineRemap(FileLines(file)[ExternalOf(index_remapper, i) + 1],
                       index_remapper, invalid).fixel


(***************************************************************************)
(* C30: once the Smooth filter is constructed, the row of every fixel for  *)
(* which a line was read is not empty: when the weights that pass the      *)
(* threshold have a sum other than zero the row holds those weights, each  *)
(* multiplied by 1 / sum; otherwise the row is the one entry (fixel, 1).   *)
(***************************************************************************)
\* the entries of line in_first that pass the threshold, and their sum
Thresholded(in_first) ==
  KernelLoop(ParseLine(FileLines(file)[in_first + 1]).fixel, 1,
             At(fixel_positions, in_first), fixel_positions, kernel,
             [elems |-> << >>, sum_weights |-> RatZero])

C30_RowsNormalised ==
  pc = "constructed" =>
    \A in_first \in 0 .. Len(FileLines(file)) - 1 :
      LET r == Thresholded(in_first)
          row == At(smoothing_matrix, in_first).elems
      IN /\ Len(row) > 0
         /\ IF r.sum_weights # RatZero
            THEN row = [k \in 1 .. Len(r.elems) |->
                          ElementNormalise(r.elems[k], RatDiv(RatOne, r.sum_weights))]
            ELSE row = << NormElement(in_first, RatOne) >>

====
